---------------------------- MODULE Spec2Model ----------------------------
(***************************************************************************)
(* Domain-weighted anomaly and confidence scoring engine of orbital-sigma  *)
(* (geo-service): the weight store (weights_loader.py), the magnitude      *)
(* scaler (magnitude_scaling.py), the confidence calculator and tracker    *)
(* (confidence_metrics.py) and the anomaly scorer (anomaly_scoring.py).    *)
(*                                                                         *)
(* Real numbers are fixed-point integers in units of 1/MICRO (1.0 is       *)
(* MICRO).  TLC's integers are 32 bits wide, so products and quotients are *)
(* computed in pieces (MulFx, DivFx) and never overflow for the values the *)
(* model draws.                                                            *)
(***************************************************************************)
EXTENDS Integers, Sequences, FiniteSets, TLC

VARIABLES
    config,              \* AnomalyScorer.config: the parsed weights.json
    domain_multipliers,  \* AnomalyScorer.domain_multipliers
    scaler_method,       \* AnomalyScorer.scaler.method
    min_max_range,       \* scaler.domain_params[d]['min_max_range']
    calls,               \* number of adaptive scaling calls made so far
    disk,                \* the content of weights.json
    weights_data,        \* WeightsManager._weights_data
    loaded,              \* WeightsManager._loaded
    analyzer_config,     \* WeightedEmbeddingAnalyzer.config
    window_size,         \* ConfidenceTracker.window_size
    observations,        \* ConfidenceTracker.observations
    res,                 \* what the last call returned (or that it raised)
    pc,                  \* where each thread stands in the call it is running
    appended,            \* the magnitudes appended so far, per entity, in order
    aoi,                 \* AOIObservationBatch.observations
    cache_store,         \* TTLCache._store: key -> (expires_at, value)
    clock,               \* what time.time() returns, in seconds
    last_set             \* per key, the time, ttl and value of the last set

scorerVars  == <<config, domain_multipliers, scaler_method, min_max_range, calls>>
storeVars   == <<disk, weights_data, loaded, analyzer_config>>
trackerVars == <<window_size, observations>>
cacheVars   == <<cache_store, clock, last_set>>

\* so far, and the observations of the AOIObservationBatch
\* so far, and the AOIObservation object in hand
callerVars  == <<pc, appended, aoi>>

vars == <<scorerVars, storeVars, trackerVars, cacheVars, callerVars, res>>

-----------------------------------------------------------------------------
(* Fixed-point arithmetic *)

MICRO == 1000 * 1000

\* n thousandths as a fixed-point number
Milli(n) == n * 1000

Abs(x) == IF x < 0 THEN -x ELSE x
Min(a, b) == IF a <= b THEN a ELSE b
Max(a, b) == IF a >= b THEN a ELSE b

\* floor(a * b / MICRO), exact, for either sign
MulFx(a, b) ==
    LET ah == a \div 1000
        al == a % 1000
        bh == b \div 1000
        bl == b % 1000
        t  == ah * bl + al * bh
    IN  ah * bh + (t \div 1000) + (((t % 1000) * 1000 + al * bl) \div MICRO)

RECURSIVE Pow10(_)
Pow10(n) == IF n = 0 THEN 1 ELSE 10 * Pow10(n - 1)

\* floor(r * 10^n / b) for 0 <= r < b, by long division
RECURSIVE FracDigits(_, _, _)
FracDigits(r, b, n) ==
    IF n = 0 THEN 0
    ELSE ((r * 10) \div b) * Pow10(n - 1) + FracDigits((r * 10) % b, b, n - 1)

\* floor(a * MICRO / b), exact, for b > 0 and either sign of a
DivFx(a, b) == (a \div b) * MICRO + FracDigits(a % b, b, 6)

\* Python's round(x, 4): to the nearest multiple of 0.0001, ties to even
Round4(x) ==
    LET q == x \div 100
        r == x % 100
    IN  IF r > 50 \/ (r = 50 /\ q % 2 = 1) THEN (q + 1) * 100 ELSE q * 100

\* Python's round(x, 3)
Round3(x) ==
    LET q == x \div 1000
        r == x % 1000
    IN  IF r > 500 \/ (r = 500 /\ q % 2 = 1) THEN (q + 1) * 1000 ELSE q * 1000

RECURSIVE SumSeq(_)
SumSeq(s) == IF s = <<>> THEN 0 ELSE Head(s) + SumSeq(Tail(s))

SeqMin(s) == CHOOSE m \in {s[i] : i \in DOMAIN s} : \A i \in DOMAIN s : m <= s[i]
SeqMax(s) == CHOOSE m \in {s[i] : i \in DOMAIN s} : \A i \in DOMAIN s : m >= s[i]

-----------------------------------------------------------------------------
(* math.exp, math.tanh, math.atan and math.log in fixed point, each within *)
(* 0.00001 of the real function; the logistic curve and tanh are           *)
(* non-decreasing as computed here.                                        *)

\* floor(MICRO * e^-k) for k = 0 .. 15
ExpNegTable ==
    <<1000000, 367879, 135335, 49787, 18315, 6737, 2478, 911,
      335, 123, 45, 16, 6, 2, 0, 0>>

\* the terms f^n/n!, f^(n+1)/(n+1)!, ... of e^f, given term = f^(n-1)/(n-1)!
RECURSIVE ExpSeries(_, _, _)
ExpSeries(f, term, n) ==
    IF term = 0 \/ n > 12 THEN 0
    ELSE LET nxt == MulFx(term, f) \div n
         IN  nxt + ExpSeries(f, nxt, n + 1)

\* e^-t for t >= 0
ExpNeg(t) ==
    LET k == t \div MICRO
        f == t % MICRO
    IN  IF k >= 14 THEN 0
        ELSE Max(ExpNegTable[k + 2],
                 DivFx(ExpNegTable[k + 1], MICRO + ExpSeries(f, MICRO, 1)))

\* 1 / (1 + e^-t)
Logistic(t) ==
    IF t >= 0 THEN DivFx(MICRO, MICRO + ExpNeg(t))
    ELSE DivFx(ExpNeg(-t), MICRO + ExpNeg(-t))

\* math.exp(x) raises OverflowError above ln(DBL_MAX) = 709.782712...
ExpOverflows(x) == x > 709 * MICRO + 782712

Tanh(u) ==
    IF u >= 0 THEN DivFx(MICRO - ExpNeg(2 * u), MICRO + ExpNeg(2 * u))
    ELSE -DivFx(MICRO - ExpNeg(-2 * u), MICRO + ExpNeg(-2 * u))

PiFx == 3141593

\* atan at 0, 0.25, 0.5, 0.75, 1
AtanTable == <<0, 244979, 463648, 643501, 785398>>

AtanSmall(x) ==
    LET x2 == MulFx(x, x)
        x3 == MulFx(x2, x)
        x5 == MulFx(x3, x2)
    IN  x - (x3 \div 3) + (x5 \div 5)

\* atan(u) for 0 <= u <= 1
AtanUnit(u) ==
    LET i == (u + 125000) \div 250000
        c == i * 250000
    IN  AtanTable[i + 1] + AtanSmall(DivFx(u - c, MICRO + MulFx(u, c)))

AtanPos(u) == IF u <= MICRO THEN AtanUnit(u) ELSE (PiFx \div 2) - AtanUnit(DivFx(MICRO, u))

Atan(u) == IF u < 0 THEN -AtanPos(-u) ELSE AtanPos(u)

Ln2Fx == 693147

AtanhSeries(z) ==
    LET z2 == MulFx(z, z)
        z3 == MulFx(z2, z)
        z5 == MulFx(z3, z2)
        z7 == MulFx(z5, z2)
        z9 == MulFx(z7, z2)
    IN  z + (z3 \div 3) + (z5 \div 5) + (z7 \div 7) + (z9 \div 9)

\* math.log(y) for y > 0
RECURSIVE Ln(_)
Ln(y) ==
    IF y >= 2 * MICRO THEN Ln2Fx + Ln(y \div 2)
    ELSE IF y < MICRO THEN Ln(2 * y) - Ln2Fx
    ELSE 2 * AtanhSeries(DivFx(y - MICRO, y + MICRO))

-----------------------------------------------------------------------------
(* weights.json as parsed by json.load.  A dict of band weights is held as *)
(* the bag of its values (value :> number of bands carrying it): the       *)
(* loader reads only its length, the scorer only its values.  A thresholds *)
(* dict is a function on the keys it holds.                                *)

SupportedDomains == {"port", "farm", "mine", "energy"}
ThresholdKeys == {"minor_change", "moderate_change", "major_change", "critical_change"}

None == "None"

\* a dict's .get(key, default)
Get(d, k, dflt) == IF k \in DOMAIN d THEN d[k] ELSE dflt

RECURSIVE BagCount(_, _)
\* number of elements of the bag b whose value is in S
BagCount(b, S) ==
    IF S = {} THEN 0
    ELSE LET v == CHOOSE x \in S : TRUE
         IN  b[v] + BagCount(b, S \ {v})

RECURSIVE BagSumAbs(_, _)
\* sum of abs(v) over the elements of the bag b whose value is in S
BagSumAbs(b, S) ==
    IF S = {} THEN 0
    ELSE LET v == CHOOSE x \in S : TRUE
         IN  Abs(v) * b[v] + BagSumAbs(b, S \ {v})

\* len(weights)
WeightsLen(b) == BagCount(b, DOMAIN b)

\* a weights dict with k bands of weight w (w # 1.0) and n - k bands of 1.0
WeightBag(k, w, n) ==
    [v \in (IF k > 0 THEN {w} ELSE {}) \cup (IF n > k THEN {MICRO} ELSE {})
        |-> IF v = MICRO THEN n - k ELSE k]

Thresholds(a, b, c, d) ==
    [k \in ThresholdKeys |->
        CASE k = "minor_change"    -> a
          [] k = "moderate_change" -> b
          [] k = "major_change"    -> c
          [] k = "critical_change" -> d]

\* one entry of config['domains'], or config['default']
DomainCfg(w, t) ==
    [has_weights |-> TRUE, weights |-> w, thresholds |-> t, has_name |-> TRUE]

RequiredKeys == {"domains", "default", "version", "embedding_dimensions"}

\* the parsed file: the top-level keys it holds and their values
MkConfig(keys, dims, doms, dflt) ==
    [keys |-> keys, embedding_dimensions |-> dims, domains |-> doms, default |-> dflt]

-----------------------------------------------------------------------------
(* AnomalyScorer (anomaly_scoring.py) *)

TotalDims == 64

ConfidenceArgs == {None, "high", "medium", "low", "very_high"}

\* the multiplier the loop body of _calculate_domain_multipliers computes
WeightsMultiplier(weights) ==
    LET nd                == DOMAIN weights \ {MICRO}
        non_default_count == BagCount(weights, nd)
        avg_weight        == IF non_default_count > 0
                             THEN BagSumAbs(weights, nd) \div non_default_count
                             ELSE MICRO
        specialization_factor == (non_default_count * MICRO) \div TotalDims
    IN  MICRO + MulFx(MulFx(specialization_factor, avg_weight), Milli(500))

\* without the final multipliers['default'] = 1.0
MultipliersNoDefaultOverride(cfg) ==
    [d \in DOMAIN cfg.domains |-> WeightsMultiplier(cfg.domains[d].weights)]

CalculateDomainMultipliers(cfg) ==
    [d \in DOMAIN cfg.domains \cup {"default"} |->
        IF d = "default" THEN MICRO
        ELSE WeightsMultiplier(cfg.domains[d].weights)]

GetDomainMultiplier(mults, domain) == Get(mults, domain, MICRO)

\* confidence_map.get(confidence_level, 1.0), 1.0 when no level is given
ConfidenceFactor(confidence_level) ==
    CASE confidence_level = "high"   -> MICRO
      [] confidence_level = "medium" -> Milli(900)
      [] confidence_level = "low"    -> Milli(750)
      [] OTHER                       -> MICRO

\* the thresholds dict _determine_anomaly_level reads
LevelThresholds(cfg, domain) ==
    IF domain \in DOMAIN cfg.domains
    THEN cfg.domains[domain].thresholds
    ELSE cfg.default.thresholds

\* with <= for < in the comparisons
LevelOfNonStrict(score, thresholds) ==
    IF score <= Get(thresholds, "minor_change", Milli(20)) THEN "normal"
    ELSE IF score <= Get(thresholds, "moderate_change", Milli(50)) THEN "low"
    ELSE IF score <= Get(thresholds, "major_change", Milli(100)) THEN "medium"
    ELSE IF score <= Get(thresholds, "critical_change", Milli(150)) THEN "high"
    ELSE "critical"

LevelOf(score, thresholds) ==
    IF score < Get(thresholds, "minor_change", Milli(20)) THEN "normal"
    ELSE IF score < Get(thresholds, "moderate_change", Milli(50)) THEN "low"
    ELSE IF score < Get(thresholds, "major_change", Milli(100)) THEN "medium"
    ELSE IF score < Get(thresholds, "critical_change", Milli(150)) THEN "high"
    ELSE "critical"

\* a KeyError of _determine_anomaly_level or _generate_interpretation:
\* config['default'] is read for every domain, domain_config['name'] too
ResultRaises(cfg, domain) ==
    \/ "default" \notin cfg.keys
    \/ ~(IF domain \in DOMAIN cfg.domains
         THEN cfg.domains[domain].has_name
         ELSE cfg.default.has_name)

Raised(op, e) == [op |-> op, error |-> e]

\* the domain the scoring methods go on with
ResolveDomain(mults, domain) ==
    IF domain = None \/ domain \notin DOMAIN mults THEN "default" ELSE domain

\* without the soft cap min(1.0, anomaly_score)
BasicScoreUncapped(raw_magnitude, domain_multiplier, confidence_factor) ==
    MulFx(MulFx(raw_magnitude, domain_multiplier), confidence_factor)

BasicScore(raw_magnitude, domain_multiplier, confidence_factor) ==
    Min(MICRO, MulFx(MulFx(raw_magnitude, domain_multiplier), confidence_factor))

CalculateAnomalyScore(cfg, mults, raw_magnitude, domain_arg, confidence_level) ==
    LET domain == ResolveDomain(mults, domain_arg)
    IN  IF domain \notin DOMAIN mults THEN Raised("calculate_anomaly_score", "KeyError")
        ELSE IF ResultRaises(cfg, domain) THEN Raised("calculate_anomaly_score", "KeyError")
        ELSE
        LET domain_multiplier == mults[domain]
            confidence_factor == ConfidenceFactor(confidence_level)
            anomaly_score     == BasicScore(raw_magnitude, domain_multiplier, confidence_factor)
            anomaly_level     == LevelOf(anomaly_score, LevelThresholds(cfg, domain))
        IN  [op                |-> "calculate_anomaly_score",
             error             |-> None,
             args              |-> <<raw_magnitude, domain_arg, confidence_level>>,
             score             |-> anomaly_score,
             anomaly_score     |-> Round4(anomaly_score),
             raw_magnitude     |-> Round4(raw_magnitude),
             domain            |-> domain,
             domain_multiplier |-> Round3(domain_multiplier),
             confidence_factor |-> confidence_factor,
             anomaly_level     |-> anomaly_level,
             requires_attention |-> anomaly_level \in {"high", "critical"}]

-----------------------------------------------------------------------------
(* WeightsManager (weights_loader.py) and the two components that read     *)
(* weights.json themselves.                                                *)

\* Python's None where a dict may stand
NoObject == [is_none |-> TRUE]
IsNone(x) == "is_none" \in DOMAIN x

\* what open() and json.load() find: no file, a file that is not JSON, or a dict
FileMissing == [file |-> "missing"]
FileMalformed == [file |-> "invalid_json"]
IsDict(f) == "keys" \in DOMAIN f

\* len(default.get('weights', {}))
DefaultWeightsLen(data) ==
    IF data.default.has_weights THEN WeightsLen(data.default.weights) ELSE 0

\* _validate_weights: the error it raises, None when it returns
ValidateWeights(data) ==
    IF ~(RequiredKeys \subseteq data.keys) THEN "ValueError"
    ELSE IF \E d \in DOMAIN data.domains :
                \/ ~data.domains[d].has_weights
                \/ WeightsLen(data.domains[d].weights) # data.embedding_dimensions
         THEN "ValueError"
    ELSE IF DefaultWeightsLen(data) # data.embedding_dimensions THEN "ValueError"
    ELSE None

\* the truth value of self._weights_data
Truthy(data) == ~IsNone(data) /\ data.keys # {}

\* load_weights: the error raised (None when it returns) and the manager's
\* fields after it; a file that parses is stored before it is validated
LoadWeights(file, data, is_loaded) ==
    IF is_loaded /\ Truthy(data)
    THEN [error |-> None, data |-> data, loaded |-> is_loaded]
    ELSE IF file = FileMissing
    THEN [error |-> "FileNotFoundError", data |-> data, loaded |-> is_loaded]
    ELSE IF file = FileMalformed
    THEN [error |-> "JSONDecodeError", data |-> data, loaded |-> is_loaded]
    ELSE IF ValidateWeights(file) # None
    THEN [error |-> ValidateWeights(file), data |-> file, loaded |-> is_loaded]
    ELSE [error |-> None, data |-> file, loaded |-> TRUE]

\* reload_weights: the cache is dropped, then load_weights runs
ReloadWeights(file) == LoadWeights(file, NoObject, FALSE)

\* the getters' first lines: if not self._loaded: self.load_weights()
EnsureLoaded(file, data, is_loaded) ==
    IF is_loaded THEN [error |-> None, data |-> data, loaded |-> is_loaded]
    ELSE LoadWeights(file, data, is_loaded)

\* a lookup that answers an unknown domain with the entry of farm
DomainConfigOfFarm(data, domain) ==
    IF domain \in DOMAIN data.domains THEN data.domains[domain] ELSE data.domains["farm"]

\* data['domains'][domain] if it is there, data['default'] otherwise
DomainConfigOf(data, domain) ==
    IF domain \in DOMAIN data.domains THEN data.domains[domain] ELSE data.default

\* the result of a getter that returns value(entry) of the domain's entry
Fetched(op, args, ensured, raises, value) ==
    IF ensured.error # None THEN Raised(op, ensured.error)
    ELSE IF raises THEN Raised(op, "KeyError")
    ELSE [op |-> op, error |-> None, args |-> args, value |-> value]

GetDomainWeights(ensured, domain) ==
    LET entry == DomainConfigOf(ensured.data, domain)
    IN  Fetched("get_domain_weights", <<domain>>, ensured,
                ensured.error = None /\ ~entry.has_weights,
                IF ensured.error = None /\ entry.has_weights THEN entry.weights ELSE <<>>)

GetDomainConfig(ensured, domain) ==
    Fetched("get_domain_config", <<domain>>, ensured, FALSE,
            IF ensured.error = None THEN DomainConfigOf(ensured.data, domain) ELSE NoObject)

\* config.get('thresholds', {})
GetThresholds(ensured, domain) ==
    Fetched("get_thresholds", <<domain>>, ensured, FALSE,
            IF ensured.error = None THEN DomainConfigOf(ensured.data, domain).thresholds
            ELSE <<>>)

GetAllDomains(ensured) ==
    Fetched("get_all_domains", <<>>, ensured, FALSE,
            IF ensured.error = None THEN DOMAIN ensured.data.domains ELSE {})

\* AnomalyScorer.__init__: the error raised, None when the scorer is constructed
ScorerInit(file) ==
    IF file = FileMissing THEN "FileNotFoundError"
    ELSE IF file = FileMalformed THEN "JSONDecodeError"
    ELSE IF "domains" \notin file.keys THEN "KeyError"
    ELSE IF \E d \in DOMAIN file.domains : ~file.domains[d].has_weights THEN "KeyError"
    ELSE None

\* WeightedEmbeddingAnalyzer.__init__
AnalyzerInit(file) ==
    IF file = FileMissing THEN "FileNotFoundError"
    ELSE IF file = FileMalformed THEN "JSONDecodeError"
    ELSE IF ~({"domains", "default"} \subseteq file.keys) THEN "KeyError"
    ELSE IF ~file.default.has_weights THEN "KeyError"
    ELSE None

\* WeightedEmbeddingAnalyzer.get_domain_weights
AnalyzerGetDomainWeights(cfg, domain_type) ==
    IF domain_type \in DOMAIN cfg.domains
    THEN IF cfg.domains[domain_type].has_weights
         THEN [op |-> "analyzer.get_domain_weights", error |-> None,
               args |-> <<domain_type>>, value |-> cfg.domains[domain_type].weights]
         ELSE Raised("analyzer.get_domain_weights", "KeyError")
    ELSE [op |-> "analyzer.get_domain_weights", error |-> None,
          args |-> <<domain_type>>, value |-> cfg.default.weights]

-----------------------------------------------------------------------------
(* MagnitudeScaler (magnitude_scaling.py).  Of a domain's parameters only  *)
(* 'min_max_range' is ever written after construction; it is the state the *)
(* scaler carries besides its method.                                      *)

ScalingMethods == {"sigmoid", "min_max", "tanh", "arctan", "log_scale", "none"}
ParamDomains == SupportedDomains \cup {"default"}

SigmoidK(d) ==
    CASE d = "port" -> Milli(8000) [] d = "farm" -> Milli(10000) [] d = "mine" -> Milli(7000)
      [] d = "energy" -> Milli(9000) [] OTHER -> Milli(10000)

SigmoidX0(d) ==
    CASE d = "port" -> Milli(150) [] d = "farm" -> Milli(120) [] d = "mine" -> Milli(180)
      [] d = "energy" -> Milli(140) [] OTHER -> Milli(100)

TanhScale(d) ==
    CASE d = "port" -> Milli(3000) [] d = "farm" -> Milli(4000) [] d = "mine" -> Milli(2800)
      [] d = "energy" -> Milli(3500) [] OTHER -> Milli(5000)

\* domain_params[d]['min_max_range'] as __init__ sets it
StaticRanges ==
    [d \in ParamDomains |->
        CASE d = "port" -> <<0, Milli(300)>> [] d = "farm" -> <<0, Milli(250)>>
          [] d = "mine" -> <<0, Milli(350)>> [] d = "energy" -> <<0, Milli(280)>>
          [] OTHER -> <<0, Milli(200)>>]

\* the key of the dict domain_params.get(domain, domain_params['default']) returns
ParamsOf(domain) == IF domain \in ParamDomains THEN domain ELSE "default"

Clamp01(x) == Max(0, Min(MICRO, x))

SigmoidScale(value, d) ==
    LET t == MulFx(SigmoidK(d), value - SigmoidX0(d))
    IN  IF ExpOverflows(-t)
        THEN Clamp01(IF value > SigmoidX0(d) THEN MICRO ELSE 0)
        ELSE Clamp01(Logistic(t))

\* without the clamp of the quotient
MinMaxScaleUnclamped(value, range) ==
    IF range[2] <= range[1] THEN Milli(500)
    ELSE DivFx(value - range[1], range[2] - range[1])

MinMaxScale(value, range) ==
    IF range[2] <= range[1] THEN Milli(500)
    ELSE Clamp01(DivFx(value - range[1], range[2] - range[1]))

TanhScaleOf(value, d) == Clamp01((Tanh(MulFx(TanhScale(d), value)) + MICRO) \div 2)

\* 'arctan_scale' is in no domain's parameters: the default 10.0 applies
ArctanScale(value) == Clamp01(DivFx(Atan(MulFx(Milli(10000), value)), PiFx) + Milli(500))

\* 'log_scale' is in no domain's parameters: the default 1.0 applies
LogScale(value) ==
    IF value <= 0 THEN 0
    ELSE Clamp01(DivFx(Ln(MICRO + MulFx(MICRO, value)), Ln(MICRO + MICRO)))

\* params.update(custom_params) writes through to domain_params
RangesAfter(method, ranges, domain, custom) ==
    IF method = "none" \/ custom = None THEN ranges
    ELSE [ranges EXCEPT ![ParamsOf(domain)] = custom]

\* MagnitudeScaler.scale: the value returned
Scale(method, ranges, value, domain, custom) ==
    LET d     == ParamsOf(domain)
        range == RangesAfter(method, ranges, domain, custom)[d]
    IN  CASE method = "none"      -> Clamp01(value)
          [] method = "sigmoid"   -> SigmoidScale(value, d)
          [] method = "min_max"   -> MinMaxScale(value, range)
          [] method = "tanh"      -> TanhScaleOf(value, d)
          [] method = "arctan"    -> ArctanScale(value)
          [] method = "log_scale" -> LogScale(value)
          [] OTHER                -> Clamp01(value)

\* the range an adaptive batch_scale passes as custom_params
AdaptiveRange(values) ==
    LET min_val       == SeqMin(values)
        max_val       == SeqMax(values)
        range_padding == MulFx(max_val - min_val, Milli(100))
    IN  <<Max(0, min_val - range_padding), max_val + range_padding>>

BatchCustom(method, values, adaptive) ==
    IF values # <<>> /\ adaptive /\ method = "min_max" THEN AdaptiveRange(values) ELSE None

\* MagnitudeScaler.batch_scale: the list returned
BatchScale(method, ranges, values, domain, adaptive) ==
    [i \in DOMAIN values |->
        Scale(method, ranges, values[i], domain, BatchCustom(method, values, adaptive))]

\* ... and domain_params after it
BatchRangesAfter(method, ranges, values, domain, adaptive) ==
    RangesAfter(method, ranges, domain, BatchCustom(method, values, adaptive))

-----------------------------------------------------------------------------
(* AnomalyScorer.calculate_scaled_anomaly_score *)

\* the method the scaled path sets on self.scaler for the resolved domain
MethodFor(domain) ==
    IF domain \in {"port", "mine"} THEN "sigmoid"
    ELSE IF domain \in {"farm", "energy"} THEN "min_max"
    ELSE "tanh"

\* [m * domain_multiplier for m in historical_data] + [weighted_magnitude]
WeightedBatch(historical_data, domain_multiplier, weighted_magnitude) ==
    Append([i \in DOMAIN historical_data |-> MulFx(historical_data[i], domain_multiplier)],
           weighted_magnitude)

\* Python's None where a list of magnitudes may stand: the list of the one
\* value that is no number
NoList == <<0 - 2000 * MICRO>>

\* historical_data is used only when it is a non-empty list
Adaptive(domain, historical_data) ==
    domain \in {"farm", "energy"} /\ historical_data # NoList /\ historical_data # <<>>

ScaledScore(ranges, weighted_magnitude, domain, domain_multiplier, historical_data) ==
    IF Adaptive(domain, historical_data)
    THEN LET batch == WeightedBatch(historical_data, domain_multiplier, weighted_magnitude)
         IN  BatchScale("min_max", ranges, batch, domain, TRUE)[Len(batch)]
    ELSE Scale(MethodFor(domain), ranges, weighted_magnitude, domain, None)

\* domain_params after the scaled path
ScaledRangesAfter(ranges, weighted_magnitude, domain, domain_multiplier, historical_data) ==
    IF Adaptive(domain, historical_data)
    THEN BatchRangesAfter("min_max", ranges,
             WeightedBatch(historical_data, domain_multiplier, weighted_magnitude), domain, TRUE)
    ELSE ranges

CalculateScaledAnomalyScore(cfg, mults, ranges, raw_magnitude, domain_arg, confidence_level, historical_data) ==
    LET domain == ResolveDomain(mults, domain_arg)
    IN  IF domain \notin DOMAIN mults
        THEN Raised("calculate_scaled_anomaly_score", "KeyError")
        ELSE IF ResultRaises(cfg, domain)
        THEN Raised("calculate_scaled_anomaly_score", "KeyError")
        ELSE
        LET domain_multiplier  == mults[domain]
            weighted_magnitude == MulFx(raw_magnitude, domain_multiplier)
            scaled_score       == ScaledScore(ranges, weighted_magnitude, domain,
                                              domain_multiplier, historical_data)
            confidence_factor  == ConfidenceFactor(confidence_level)
            final_score        == MulFx(scaled_score, confidence_factor)
            anomaly_level      == LevelOf(final_score, LevelThresholds(cfg, domain))
        IN  [op                 |-> "calculate_scaled_anomaly_score",
             error              |-> None,
             args               |-> <<raw_magnitude, domain_arg, confidence_level,
                                      historical_data>>,
             score              |-> final_score,
             anomaly_score      |-> Round4(final_score),
             scaled_score       |-> Round4(scaled_score),
             raw_magnitude      |-> Round4(raw_magnitude),
             weighted_magnitude |-> Round4(weighted_magnitude),
             domain             |-> domain,
             domain_multiplier  |-> Round3(domain_multiplier),
             scaling_method     |-> MethodFor(domain),
             confidence_factor  |-> confidence_factor,
             anomaly_level      |-> anomaly_level,
             requires_attention |-> anomaly_level \in {"high", "critical"}]

-----------------------------------------------------------------------------
(* StabilityMetrics, ConfidenceCalculator and ConfidenceTracker            *)
(* (confidence_metrics.py).  A test against 1e-10 is a test against 0 at   *)
(* the resolution of the fixed-point numbers.                              *)

ConfidenceLevels == {"very_high", "high", "medium", "low", "very_low", "insufficient_data"}

min_observations == 3
max_observations == 30

\* float('inf')
Inf == 2100 * MICRO

\* Python's None where a float may stand
NoNumber == 0 - 2000 * MICRO

\* a / b for b > 0; a quotient above 2000 is held as 2000
Ratio(a, b) == IF Abs(a) \div b >= 2000 THEN (IF a < 0 THEN -2000 ELSE 2000) * MICRO
               ELSE DivFx(a, b)

\* the smallest r in lo .. hi with r * r >= x
RECURSIVE SqrtSearch(_, _, _)
SqrtSearch(x, lo, hi) ==
    IF lo >= hi THEN lo
    ELSE LET mid == (lo + hi) \div 2
         IN  IF MulFx(mid, mid) >= x THEN SqrtSearch(x, lo, mid)
             ELSE SqrtSearch(x, mid + 1, hi)

\* math.sqrt for 0 <= x <= 1600
Sqrt(x) == SqrtSearch(x, 0, 40 * MICRO)

\* statistics.mean
Mean(values) == SumSeq(values) \div Len(values)

\* sum((v - c) ** 2 for v in values)
SumSqDev(values, c) ==
    SumSeq([i \in DOMAIN values |-> MulFx(values[i] - c, values[i] - c)])

\* statistics.stdev, for len(values) >= 2
Stdev(values) == Sqrt(SumSqDev(values, Mean(values)) \div (Len(values) - 1))

CoefficientOfVariation(values) ==
    IF Len(values) < 2 THEN Inf
    ELSE IF Mean(values) = 0 THEN Inf
    ELSE Ratio(Stdev(values), Abs(Mean(values)))

MeanAbsoluteDeviation(values) ==
    IF values = <<>> THEN Inf
    ELSE SumSeq([i \in DOMAIN values |-> Abs(values[i] - Mean(values))]) \div Len(values)

\* R-squared of the least-squares line through (0, v0), (1, v1), ...
TrendStability(values) ==
    IF Len(values) < 3 THEN 0
    ELSE
    LET n      == Len(values)
        x(i)   == (i - 1) * MICRO
        x_mean == ((n - 1) * MICRO) \div 2
        y_mean == SumSeq(values) \div n
        numerator   == SumSeq([i \in DOMAIN values |->
                                  MulFx(x(i) - x_mean, values[i] - y_mean)])
        denominator == SumSeq([i \in DOMAIN values |-> MulFx(x(i) - x_mean, x(i) - x_mean)])
    IN  IF denominator = 0 THEN 0
        ELSE
        LET slope     == Ratio(numerator, denominator)
            intercept == y_mean - MulFx(slope, x_mean)
            ss_res    == SumSeq([i \in DOMAIN values |->
                             LET e == values[i] - (MulFx(slope, x(i)) + intercept)
                             IN  MulFx(e, e)])
            ss_tot    == SumSqDev(values, y_mean)
        IN  IF ss_tot = 0 THEN MICRO
            ELSE Clamp01(MICRO - Ratio(ss_res, ss_tot))

\* the normalized ranges of the windows of three whose mean is not 0
WindowRanges(values) ==
    LET window(i) == SubSeq(values, i, i + 2)
        kept      == { i \in 1 .. Len(values) - 2 : SumSeq(window(i)) \div 3 # 0 }
    IN  [i \in kept |-> Ratio(SeqMax(window(i)) - SeqMin(window(i)),
                              Abs(SumSeq(window(i)) \div 3))]

RECURSIVE SumFn(_, _)
SumFn(f, S) ==
    IF S = {} THEN 0
    ELSE LET i == CHOOSE j \in S : TRUE IN f[i] + SumFn(f, S \ {i})

VolatilityScore(values) ==
    IF Len(values) < 3 THEN MICRO
    ELSE LET differences == WindowRanges(values)
         IN  IF DOMAIN differences = {} THEN MICRO
             ELSE LET avg_volatility == SumFn(differences, DOMAIN differences)
                                            \div Cardinality(DOMAIN differences)
                  IN  Logistic(MulFx(Milli(5000), avg_volatility - Milli(300)))

OutlierRatio(values) ==
    IF Len(values) < 3 THEN 0
    ELSE IF Stdev(values) = 0 THEN 0
    ELSE LET outliers == Cardinality({ i \in DOMAIN values :
                             Abs(values[i] - Mean(values)) > 2 * Stdev(values) })
         IN  (outliers * MICRO) \div Len(values)

CalculateMetrics(obs) ==
    [coefficient_variation   |-> CoefficientOfVariation(obs),
     mean_absolute_deviation |-> MeanAbsoluteDeviation(obs),
     trend_stability         |-> TrendStability(obs),
     volatility_score        |-> VolatilityScore(obs),
     outlier_ratio           |-> OutlierRatio(obs),
     mean                    |-> Mean(obs)]

CvFactor(domain) ==
    CASE domain = "port" -> Milli(5000) [] domain = "farm" -> Milli(3000)
      [] domain = "mine" -> Milli(4000) [] domain = "energy" -> Milli(3500)
      [] OTHER -> Milli(4000)

MadFactor(domain) ==
    CASE domain = "port" -> Milli(8000) [] domain = "farm" -> Milli(5000)
      [] domain = "mine" -> Milli(6000) [] domain = "energy" -> Milli(5500)
      [] OTHER -> Milli(6000)

ComputeConfidenceScore(metrics, domain) ==
    LET cv    == metrics.coefficient_variation
        s_cv  == IF cv = Inf THEN 0
                 ELSE DivFx(MICRO, MICRO + MulFx(cv, CvFactor(domain)))
        s_mad == IF metrics.mean > 0
                 THEN DivFx(MICRO, MICRO + MulFx(Ratio(metrics.mean_absolute_deviation,
                                                       metrics.mean), MadFactor(domain)))
                 ELSE Milli(500)
        s_trend      == metrics.trend_stability
        s_volatility == MICRO - metrics.volatility_score
        s_outliers   == MICRO - metrics.outlier_ratio
    IN  Clamp01(MulFx(s_cv, Milli(250)) + MulFx(s_mad, Milli(200))
                + MulFx(s_trend, Milli(200)) + MulFx(s_volatility, Milli(200))
                + MulFx(s_outliers, Milli(150)))

\* the z-score _assess_current_deviation passes to math.exp, when the history varies
ZScore(obs, current_value) == Ratio(Abs(current_value - Mean(obs)), Stdev(obs))

\* math.exp(1.5 * (z_score - 1.5)) overflows
DeviationOverflows(obs, current_value) ==
    /\ obs # <<>>
    /\ Len(obs) > 1 /\ Stdev(obs) # 0
    /\ ExpOverflows(MulFx(Milli(1500), Min(ZScore(obs, current_value), 1000 * MICRO)
                                        - Milli(1500)))

AssessCurrentDeviation(obs, current_value) ==
    IF obs = <<>> THEN MICRO
    ELSE IF Len(obs) <= 1 \/ Stdev(obs) = 0
    THEN (IF current_value = Mean(obs) THEN MICRO ELSE Milli(500))
    ELSE Logistic(-MulFx(Milli(1500), ZScore(obs, current_value) - Milli(1500)))

DetermineConfidenceLevel(score) ==
    IF score >= Milli(850) THEN "very_high"
    ELSE IF score >= Milli(700) THEN "high"
    ELSE IF score >= Milli(500) THEN "medium"
    ELSE IF score >= Milli(300) THEN "low"
    ELSE "very_low"

AssessStability(metrics) ==
    LET cv         == metrics.coefficient_variation
        volatility == metrics.volatility_score
        outliers   == metrics.outlier_ratio
    IN  IF cv < Milli(100) /\ volatility < Milli(200) /\ outliers < Milli(100)
        THEN "Highly stable"
        ELSE IF cv < Milli(200) /\ volatility < Milli(400) /\ outliers < Milli(200)
        THEN "Stable"
        ELSE IF cv < Milli(300) /\ volatility < Milli(600) THEN "Moderately stable"
        ELSE IF cv < Milli(500) THEN "Somewhat unstable"
        ELSE "Highly unstable"

\* observations[-max_observations:] when the list is longer
LastWindow(obs_in) ==
    IF Len(obs_in) > max_observations
    THEN SubSeq(obs_in, Len(obs_in) - max_observations + 1, Len(obs_in))
    ELSE obs_in

\* with the test len(observations) < min_observations - 1
InsufficientBelowTwo(obs) == Len(obs) < min_observations - 1

\* the test that ends calculate_confidence early
Insufficient(obs) == Len(obs) < min_observations

InsufficientData(op, args, count) ==
    [op |-> op, error |-> None, args |-> args,
     confidence_level |-> "insufficient_data", confidence_score |-> 0,
     observation_count |-> count, has_metrics |-> FALSE]

\* ConfidenceCalculator.calculate_confidence, called as op with args
ConfidenceOf(op, args, obs_in, current_value, domain) ==
    LET obs == LastWindow(obs_in)
    IN  IF Insufficient(obs) THEN InsufficientData(op, args, Len(obs))
        ELSE IF current_value # NoNumber /\ DeviationOverflows(obs, current_value)
        THEN Raised(op, "OverflowError")
        ELSE
        LET metrics == CalculateMetrics(obs)
            base    == ComputeConfidenceScore(metrics, domain)
            confidence_score ==
                IF current_value # NoNumber
                THEN MulFx(base, AssessCurrentDeviation(obs, current_value))
                ELSE base
        IN  [op |-> op, error |-> None, args |-> args,
             confidence_level     |-> DetermineConfidenceLevel(confidence_score),
             confidence_score     |-> Round4(confidence_score),
             observation_count    |-> Len(obs),
             has_metrics          |-> TRUE,
             stability_assessment |-> AssessStability(metrics)]

CalculateConfidence(observations_arg, current_value, domain) ==
    ConfidenceOf("calculate_confidence", <<observations_arg, current_value, domain>>,
                 observations_arg, current_value, domain)

\* deque(maxlen=window).append(magnitude)
\* a list that keeps every value
ListAppend(values, magnitude, window) == Append(values, magnitude)

DequeAppend(values, magnitude, window) ==
    IF window = 0 THEN <<>>
    ELSE IF Len(values) >= window
    THEN Append(SubSeq(values, Len(values) - window + 2, Len(values)), magnitude)
    ELSE Append(values, magnitude)

\* ConfidenceTracker.add_observation: self.observations after it
AddObservation(tracked, window, entity_id, magnitude, domain) ==
    LET entry == IF entity_id \in DOMAIN tracked THEN tracked[entity_id]
                 ELSE [values |-> <<>>, domain |-> domain]
        added == [values |-> DequeAppend(entry.values, magnitude, window),
                  domain |-> IF domain # None THEN domain ELSE entry.domain]
    IN  [e \in DOMAIN tracked \cup {entity_id} |-> IF e = entity_id THEN added ELSE tracked[e]]

\* ConfidenceTracker.get_confidence
GetConfidence(tracked, entity_id, current_value) ==
    IF entity_id \notin DOMAIN tracked
    THEN InsufficientData("get_confidence", <<entity_id, current_value>>, 0)
    ELSE ConfidenceOf("get_confidence", <<entity_id, current_value>>,
                      tracked[entity_id].values, current_value, tracked[entity_id].domain)

\* ConfidenceTracker.clear_entity: self.observations after it
ClearEntity(tracked, entity_id) == [e \in DOMAIN tracked \ {entity_id} |-> tracked[e]]

-----------------------------------------------------------------------------
(* AnomalyScorer._generate_combined_assessment and the priority label      *)
(* AOIObservation.process takes from it.  A text 'X - Y' is held as the    *)
(* pieces <<X, Y>> that split(' - ') returns.                              *)

\* the matrix with its else branches spelled out for the levels they were
\* written for, and nothing for a level they were not
PriorityWithoutElse(anomaly_level, confidence_level) ==
    LET confident == confidence_level \in {"very_high", "high"}
        uncertain == confidence_level \in {"medium", "low", "very_low"}
    IN  IF anomaly_level \in {"critical", "high"}
        THEN IF confident THEN <<"CRITICAL", "High confidence anomaly detected">>
             ELSE IF confidence_level = "medium"
             THEN <<"HIGH", "Anomaly detected with moderate confidence">>
             ELSE IF uncertain THEN <<"MEDIUM", "Anomaly detected but low confidence">>
             ELSE <<"">>
        ELSE IF anomaly_level = "medium"
        THEN IF confident THEN <<"MEDIUM", "Confirmed moderate anomaly">>
             ELSE IF uncertain THEN <<"LOW", "Uncertain moderate anomaly">>
             ELSE <<"">>
        ELSE IF confident THEN <<"LOW", "Normal behavior confirmed">>
             ELSE IF uncertain THEN <<"INFO", "Normal behavior but uncertain">>
             ELSE <<"">>

\* the priority text of the matrix
Priority(anomaly_level, confidence_level) ==
    LET confident == confidence_level \in {"very_high", "high"}
    IN  IF anomaly_level \in {"critical", "high"}
        THEN IF confident THEN <<"CRITICAL", "High confidence anomaly detected">>
             ELSE IF confidence_level = "medium"
             THEN <<"HIGH", "Anomaly detected with moderate confidence">>
             ELSE <<"MEDIUM", "Anomaly detected but low confidence">>
        ELSE IF anomaly_level = "medium"
        THEN IF confident THEN <<"MEDIUM", "Confirmed moderate anomaly">>
             ELSE <<"LOW", "Uncertain moderate anomaly">>
        ELSE IF confident THEN <<"LOW", "Normal behavior confirmed">>
             ELSE <<"INFO", "Normal behavior but uncertain">>

\* the recommended action of the matrix
RecommendedAction(anomaly_level, confidence_level) ==
    LET confident == confidence_level \in {"very_high", "high"}
    IN  IF anomaly_level \in {"critical", "high"}
        THEN IF confident THEN "Immediate investigation required"
             ELSE IF confidence_level = "medium"
             THEN "Investigation recommended within 24 hours"
             ELSE "Monitor closely and gather more data"
        ELSE IF anomaly_level = "medium"
        THEN IF confident THEN "Schedule review within 48 hours"
             ELSE "Continue monitoring"
        ELSE IF confident THEN "Routine monitoring"
             ELSE "Gather more observations"

\* an assessment that asks for review on the anomaly level alone
AssessmentReviewOnAnomaly(anomaly_level, confidence_level, confidence_score) ==
    [op |-> "_generate_combined_assessment", error |-> None,
     args |-> <<anomaly_level, confidence_level, confidence_score>>,
     priority              |-> Priority(anomaly_level, confidence_level),
     recommended_action    |-> RecommendedAction(anomaly_level, confidence_level),
     confidence_weight     |-> Round3(confidence_score),
     requires_human_review |-> anomaly_level \in {"critical", "high"}]

CombinedAssessment(anomaly_level, confidence_level, confidence_score) ==
    [op |-> "_generate_combined_assessment", error |-> None,
     args |-> <<anomaly_level, confidence_level, confidence_score>>,
     priority              |-> Priority(anomaly_level, confidence_level),
     recommended_action    |-> RecommendedAction(anomaly_level, confidence_level),
     confidence_weight     |-> Round3(confidence_score),
     requires_human_review |-> \/ anomaly_level \in {"critical", "high"}
                               \/ confidence_level \in {"very_low", "insufficient_data"}]

\* priority.split(' - ')[0]
PriorityLabel(priority) == priority[1]

\* sort_by_priority: priority_order.get(label, 5)
PriorityOrder(label) ==
    CASE label = "CRITICAL" -> 0 [] label = "HIGH" -> 1 [] label = "MEDIUM" -> 2
      [] label = "LOW" -> 3 [] label = "INFO" -> 4 [] OTHER -> 5

-----------------------------------------------------------------------------
(* AnomalyScorer.calculate_with_confidence and the AOIObservation objects  *)
(* (aoi_observation.py) that are processed with it.                        *)

\* a local name bound to a value that is computed once: body(v)
Bind(v, body(_)) == CHOOSE r \in { body(x) : x \in {v} } : TRUE

\* confidence_map.get(confidence_level, 'medium')
ConfidenceParam(confidence_level) ==
    CASE confidence_level \in {"very_high", "high"} -> "high"
      [] confidence_level = "medium" -> "medium"
      [] confidence_level \in {"low", "very_low", "insufficient_data"} -> "low"
      [] OTHER -> "medium"

\* _assess_reliability
AssessReliability(confidence_score, anomaly_level) ==
    IF confidence_score >= Milli(700) THEN "High reliability"
    ELSE IF confidence_score >= Milli(500)
    THEN (IF anomaly_level \in {"critical", "high"}
          THEN "Moderate reliability - verify anomaly" ELSE "Moderate reliability")
    ELSE "Low reliability - insufficient data"

\* calculate_with_confidence: the confidence of the history comes first, then
\* the score by the scaled or the basic path, then the two are combined
CalculateWithConfidence(cfg, mults, ranges, raw_magnitude, historical_observations, domain_arg, use_scaling) ==
    LET args   == <<raw_magnitude, historical_observations, domain_arg, use_scaling>>
        domain == ResolveDomain(mults, domain_arg)
        Combined(confidence, anomaly) ==
            IF anomaly.error # None
            THEN [op |-> "calculate_with_confidence", error |-> anomaly.error, args |-> args]
            ELSE [op |-> "calculate_with_confidence", args |-> args,
                  confidence |->
                      [level |-> confidence.confidence_level,
                       score |-> confidence.confidence_score,
                       stability |-> IF confidence.has_metrics
                                     THEN confidence.stability_assessment ELSE "Unknown",
                       observation_count |-> confidence.observation_count],
                  combined_assessment |->
                      CombinedAssessment(anomaly.anomaly_level, confidence.confidence_level,
                                         confidence.confidence_score),
                  reliability |-> AssessReliability(confidence.confidence_score,
                                                    anomaly.anomaly_level)]
                 @@ anomaly
        Scored(confidence) ==
            IF confidence.error # None
            THEN [op |-> "calculate_with_confidence", error |-> confidence.error, args |-> args]
            ELSE LET param == ConfidenceParam(confidence.confidence_level)
                 IN  Bind(IF use_scaling
                          THEN CalculateScaledAnomalyScore(cfg, mults, ranges, raw_magnitude,
                                                           domain, param, historical_observations)
                          ELSE CalculateAnomalyScore(cfg, mults, raw_magnitude, domain, param),
                          LAMBDA anomaly : Combined(confidence, anomaly))
    IN  Bind(ConfidenceOf("calculate_confidence", <<>>, historical_observations,
                          raw_magnitude, domain),
             Scored)

\* calculate_with_confidence reached the scaler: scaling was asked for and the
\* confidence was computed (math.exp did not raise)
ReachedScaler(mults, result, use_scaling) ==
    /\ use_scaling
    /\ ResolveDomain(mults, result.args[3]) \in DOMAIN mults
    /\ result.error # "OverflowError"

\* domain_params of the scorer's scaler after calculate_with_confidence returned result
RangesAfterWithConfidence(mults, ranges, result, use_scaling) ==
    LET domain == ResolveDomain(mults, result.args[3])
    IN  IF ReachedScaler(mults, result, use_scaling)
        THEN ScaledRangesAfter(ranges, MulFx(result.args[1], mults[domain]), domain,
                               mults[domain], result.args[2])
        ELSE ranges

\* self.scaler.method after calculate_with_confidence returned result
MethodAfterWithConfidence(mults, method, result, use_scaling) ==
    IF ReachedScaler(mults, result, use_scaling)
    THEN MethodFor(ResolveDomain(mults, result.args[3]))
    ELSE method

\* calculate_contextual_anomaly_score, lines 512-523: the z-score of the current
\* magnitude against the population mean and deviation of the history.  The
\* square root and the quotient are rounded by the float arithmetic; rounding
\* is the error of the last place (-1, 0 or 1) that the computed z carries
ContextualZScore(current_magnitude, historical_magnitudes, rounding) ==
    LET mean_historical == SumSeq(historical_magnitudes) \div Len(historical_magnitudes)
        variance == SumSqDev(historical_magnitudes, mean_historical)
                        \div Len(historical_magnitudes)
        std_dev  == Sqrt(variance)
    IN  IF std_dev > 0 THEN DivFx(current_magnitude - mean_historical, std_dev) + rounding
        ELSE 0

\* context_multiplier = 1.0 + (abs(z_score) - 2) * 0.1
ContextMultiplier(z_score) == MICRO + MulFx(Abs(z_score) - 2 * MICRO, Milli(100))

\* interpretation['statistical_significance']
StatisticalSignificance(z_score) ==
    IF Abs(z_score) > 3 * MICRO THEN "Highly significant (>3s)"
    ELSE IF Abs(z_score) > 2 * MICRO THEN "Significant (>2s)"
    ELSE IF Abs(z_score) > MICRO THEN "Notable (>1s)"
    ELSE "Within normal range"

\* a contextual score that classifies the amplified score and keeps the
\* attention flag of the unamplified one
ContextualLevelOnly(cfg, mults, current_magnitude, historical_magnitudes, domain, rounding) ==
    LET base_score == CalculateAnomalyScore(cfg, mults, current_magnitude, domain, None)
        z_score    == IF historical_magnitudes = <<>> THEN 0
                      ELSE ContextualZScore(current_magnitude, historical_magnitudes, rounding)
        amplified  == IF Abs(z_score) > 2 * MICRO
                      THEN Min(MICRO, MulFx(base_score.anomaly_score, ContextMultiplier(z_score)))
                      ELSE base_score.anomaly_score
    IN  IF base_score.error # None THEN base_score
        ELSE [base_score EXCEPT
                !.op = "calculate_contextual_anomaly_score",
                !.args = <<current_magnitude, historical_magnitudes, domain, rounding>>,
                !.anomaly_score = amplified,
                !.anomaly_level = LevelOf(amplified, LevelThresholds(cfg, base_score.domain))]

\* calculate_contextual_anomaly_score with a scorer of configuration cfg: the
\* result of calculate_anomaly_score, with anomaly_score overwritten when
\* |z| > 2.  Of statistical_context the model keeps the mean, the deviation
\* and the sample size.
CalculateContextualAnomalyScore(cfg, mults, current_magnitude, historical_magnitudes, domain, rounding) ==
    LET args == <<current_magnitude, historical_magnitudes, domain, rounding>>
        Contextual(base_score) ==
            IF base_score.error # None
            THEN [op |-> "calculate_contextual_anomaly_score", error |-> base_score.error,
                  args |-> args]
            ELSE IF historical_magnitudes = <<>>
            THEN [base_score EXCEPT !.op = "calculate_contextual_anomaly_score", !.args = args]
            ELSE
            LET mean_historical == SumSeq(historical_magnitudes) \div Len(historical_magnitudes)
                z_score == ContextualZScore(current_magnitude, historical_magnitudes, rounding)
            IN  [statistical_context |->
                     [historical_mean |-> Round4(mean_historical),
                      historical_std  |-> Round4(Sqrt(SumSqDev(historical_magnitudes,
                                             mean_historical) \div Len(historical_magnitudes))),
                      sample_size     |-> Len(historical_magnitudes)],
                 statistical_significance |-> StatisticalSignificance(z_score)]
                @@ [base_score EXCEPT
                      !.op = "calculate_contextual_anomaly_score",
                      !.args = args,
                      !.anomaly_score =
                          IF Abs(z_score) > 2 * MICRO
                          THEN Min(MICRO, MulFx(base_score.anomaly_score,
                                                ContextMultiplier(z_score)))
                          ELSE base_score.anomaly_score]
    IN  Bind(CalculateAnomalyScore(cfg, mults, current_magnitude, domain, None), Contextual)

(* An AOI identifier is the sequence of its characters, so that lower() and *)
(* the substring test "kw in aoi_lower" are computed as Python computes     *)
(* them.                                                                   *)

UpperCase == <<"A", "B", "C", "D", "E", "F", "G", "H", "I", "J", "K", "L", "M", "N", "O", "P", "Q", "R", "S", "T", "U", "V", "W", "X", "Y", "Z">>
LowerCase == <<"a", "b", "c", "d", "e", "f", "g", "h", "i", "j", "k", "l", "m", "n", "o", "p", "q", "r", "s", "t", "u", "v", "w", "x", "y", "z">>

\* str.lower() on one character, and on a string
LowerChar(c) ==
    IF \E i \in DOMAIN UpperCase : UpperCase[i] = c
    THEN LowerCase[CHOOSE i \in DOMAIN UpperCase : UpperCase[i] = c]
    ELSE c

Lower(s) == [i \in DOMAIN s |-> LowerChar(s[i])]

\* kw in s
Contains(s, kw) == \E i \in 0..(Len(s) - Len(kw)) : SubSeq(s, i + 1, i + Len(kw)) = kw

\* any(kw in s for kw in kws)
AnyIn(s, kws) == \E kw \in kws : Contains(s, kw)

PortKeywords ==
    { <<"p", "o", "r", "t">>,
      <<"h", "a", "r", "b", "o", "r">>,
      <<"t", "e", "r", "m", "i", "n", "a", "l">>,
      <<"d", "o", "c", "k">>,
      <<"w", "h", "a", "r", "f">>,
      <<"p", "i", "e", "r">> }

FarmKeywords ==
    { <<"f", "a", "r", "m">>,
      <<"a", "g", "r", "i">>,
      <<"c", "r", "o", "p">>,
      <<"f", "i", "e", "l", "d">>,
      <<"r", "a", "n", "c", "h">>,
      <<"p", "l", "a", "n", "t", "a", "t", "i", "o", "n">> }

MineKeywords ==
    { <<"m", "i", "n", "e">>,
      <<"m", "i", "n", "i", "n", "g">>,
      <<"q", "u", "a", "r", "r", "y">>,
      <<"p", "i", "t">>,
      <<"e", "x", "t", "r", "a", "c", "t", "i", "o", "n">> }

EnergyKeywords ==
    { <<"e", "n", "e", "r", "g", "y">>,
      <<"p", "o", "w", "e", "r">>,
      <<"s", "o", "l", "a", "r">>,
      <<"w", "i", "n", "d">>,
      <<"o", "i", "l">>,
      <<"g", "a", "s">>,
      <<"r", "e", "f", "i", "n", "e", "r", "y">> }

\* detect_domain_from_aoi of weights_loader: None when nothing is detected
DetectCaseSensitive(aoi_id) ==
    IF aoi_id = <<>> THEN None
    ELSE IF AnyIn(aoi_id, PortKeywords) THEN "port"
    ELSE IF AnyIn(aoi_id, FarmKeywords) THEN "farm"
    ELSE IF AnyIn(aoi_id, MineKeywords) THEN "mine"
    ELSE IF AnyIn(aoi_id, EnergyKeywords) THEN "energy"
    ELSE None

DetectDomainFromAoi(aoi_id) ==
    IF aoi_id = <<>> THEN None
    ELSE LET aoi_lower == Lower(aoi_id)
         IN  IF AnyIn(aoi_lower, PortKeywords) THEN "port"
             ELSE IF AnyIn(aoi_lower, FarmKeywords) THEN "farm"
             ELSE IF AnyIn(aoi_lower, MineKeywords) THEN "mine"
             ELSE IF AnyIn(aoi_lower, EnergyKeywords) THEN "energy"
             ELSE None

\* AOIObservation._detect_domain
DetectDomain(aoi_id) ==
    LET aoi_lower == Lower(aoi_id)
    IN  IF Contains(aoi_lower, <<"p", "o", "r", "t">>) THEN "port"
        ELSE IF Contains(aoi_lower, <<"f", "a", "r", "m">>) \/ Contains(aoi_lower, <<"a", "g", "r", "i">>) THEN "farm"
        ELSE IF Contains(aoi_lower, <<"m", "i", "n", "e">>) \/ Contains(aoi_lower, <<"m", "i", "n", "i", "n", "g">>) THEN "mine"
        ELSE IF Contains(aoi_lower, <<"e", "n", "e", "r", "g", "y">>) \/ Contains(aoi_lower, <<"p", "o", "w", "e", "r">>) THEN "energy"
        ELSE "default"

InUnitInterval(x) == 0 <= x /\ x <= MICRO

\* AOIObservation(...): the dataclass fields, then __post_init__; an error
\* leaves no object
NewObservation(aoi_id, raw_magnitude, domain, historical_magnitudes) ==
    IF aoi_id = <<>> \/ ~InUnitInterval(raw_magnitude)
    THEN [error |-> "ValueError", object |-> NoObject]
    ELSE [error |-> None,
          object |->
            [aoi_id |-> aoi_id,
             raw_magnitude |-> raw_magnitude,
             scaled_magnitude |-> NoNumber,
             domain |-> IF domain = "default" /\ aoi_id # <<>>
                        THEN DetectDomain(aoi_id) ELSE domain,
             domain_multiplier |-> MICRO,
             confidence_level |-> "unknown",
             confidence_score |-> 0,
             observation_count |-> 0,
             anomaly_score |-> 0,
             anomaly_level |-> "normal",
             requires_attention |-> FALSE,
             priority |-> "LOW",
             recommended_action |-> "Continue monitoring",
             reliability |-> "unknown",
             historical_magnitudes |-> historical_magnitudes,
             status |-> "pending",
             error_message |-> None]]

\* an append that checks nothing
AppendHistorical(obs, magnitude) ==
    [error |-> None,
     object |-> [obs EXCEPT !.historical_magnitudes = Append(@, magnitude),
                            !.observation_count = Len(obs.historical_magnitudes) + 1]]

\* add_historical_observation: the error raised and the object after the call
AddHistoricalObservation(obs, magnitude) ==
    IF ~InUnitInterval(magnitude) THEN [error |-> "ValueError", object |-> obs]
    ELSE [error |-> None,
          object |-> [obs EXCEPT !.historical_magnitudes = Append(@, magnitude),
                                 !.observation_count = Len(obs.historical_magnitudes) + 1]]

\* the fields process copies from the result of calculate_with_confidence
WithResult(obs, result, use_scaling) ==
    IF result.error # None
    THEN [obs EXCEPT !.status = "error", !.error_message = result.error]
    ELSE [obs EXCEPT
            !.scaled_magnitude = IF use_scaling THEN result.scaled_score
                                 ELSE obs.raw_magnitude,
            !.confidence_level = result.confidence.level,
            !.confidence_score = result.confidence.score,
            !.observation_count = result.confidence.observation_count,
            !.anomaly_score = result.anomaly_score,
            !.anomaly_level = result.anomaly_level,
            !.requires_attention = result.requires_attention,
            !.priority = PriorityLabel(result.combined_assessment.priority),
            !.recommended_action = result.combined_assessment.recommended_action,
            !.reliability = result.reliability,
            !.domain_multiplier = result.domain_multiplier,
            !.status = IF result.requires_attention THEN "anomaly_detected"
                       ELSE "processed"]

\* the fields process sets from calculate_anomaly_score when the history is short
WithBasicResult(obs, result) ==
    IF result.error # None
    THEN [obs EXCEPT !.status = "error", !.error_message = result.error]
    ELSE [obs EXCEPT
            !.anomaly_score = result.anomaly_score,
            !.anomaly_level = result.anomaly_level,
            !.requires_attention = result.requires_attention,
            !.domain_multiplier = result.domain_multiplier,
            !.confidence_level = "insufficient_data",
            !.confidence_score = 0,
            !.observation_count = Len(obs.historical_magnitudes),
            !.reliability = "Low reliability - insufficient data",
            !.status = "insufficient_data"]

\* AOIObservation.process with the scorer (cfg, mults) whose scaler has the
\* given method and ranges: the object after it, and the scaler after it
Process(obs, cfg, mults, method, ranges, use_scaling) ==
    IF Len(obs.historical_magnitudes) >= 3
    THEN Bind(CalculateWithConfidence(cfg, mults, ranges, obs.raw_magnitude,
                                      obs.historical_magnitudes, obs.domain, use_scaling),
              LAMBDA result :
                 [object |-> WithResult(obs, result, use_scaling),
                  method |-> MethodAfterWithConfidence(mults, method, result, use_scaling),
                  ranges |-> RangesAfterWithConfidence(mults, ranges, result, use_scaling)])
    ELSE [object |-> WithBasicResult(obs, CalculateAnomalyScore(cfg, mults,
                                               obs.raw_magnitude, obs.domain, None)),
          method |-> method,
          ranges |-> ranges]

\* the counters of process_all after obs.process() left the object after
Counted(stats, after) ==
    IF after.status = "error"
    THEN [stats EXCEPT !.errors = @ + 1]
    ELSE [stats EXCEPT !.processed = @ + 1]

NoneCounted == [processed |-> 0, errors |-> 0]

\* a loop that processes every observation, pending or not
RECURSIVE ProcessEveryFrom(_, _, _, _, _, _, _, _)
ProcessEveryFrom(i, batch, cfg, mults, method, ranges, use_scaling, stats) ==
    IF i > Len(batch)
    THEN [observations |-> batch, method |-> method, ranges |-> ranges, stats |-> stats]
    ELSE Bind(Process(batch[i], cfg, mults, method, ranges, use_scaling),
              LAMBDA after : ProcessEveryFrom(i + 1, [batch EXCEPT ![i] = after.object],
                                              cfg, mults, after.method, after.ranges,
                                              use_scaling, Counted(stats, after.object)))

\* process_all from observation i on: every pending observation is processed
\* with the batch's scorer, one after the other, and counted
RECURSIVE ProcessAllFrom(_, _, _, _, _, _, _, _)
ProcessAllFrom(i, batch, cfg, mults, method, ranges, use_scaling, stats) ==
    IF i > Len(batch)
    THEN [observations |-> batch, method |-> method, ranges |-> ranges, stats |-> stats]
    ELSE IF batch[i].status # "pending"
    THEN ProcessAllFrom(i + 1, batch, cfg, mults, method, ranges, use_scaling, stats)
    ELSE Bind(Process(batch[i], cfg, mults, method, ranges, use_scaling),
              LAMBDA after : ProcessAllFrom(i + 1, [batch EXCEPT ![i] = after.object],
                                            cfg, mults, after.method, after.ranges,
                                            use_scaling, Counted(stats, after.object)))

\* processing_stats after process_all
ProcessingStats(out) ==
    [total |-> Len(out.observations), processed |-> out.stats.processed,
     errors |-> out.stats.errors]

\* create_and_add: AOIObservation(aoi_id, magnitude, domain or "default",
\* historical or []), appended to the batch
CreateAndAdd(batch, aoi_id, magnitude, domain, historical) ==
    LET made == NewObservation(aoi_id, magnitude,
                               IF domain = None THEN "default" ELSE domain,
                               IF historical = NoList THEN <<>> ELSE historical)
    IN  IF made.error # None THEN [error |-> made.error, observations |-> batch]
        ELSE [error |-> None, observations |-> Append(batch, made.object)]

\* load_from_json: each saved observation is constructed from its id, raw
\* magnitude and domain, given the saved history, processed with a scorer of
\* its own and added to a new batch
LoadFromJson(data, cfg, mults) ==
    IF \E i \in DOMAIN data :
          NewObservation(data[i].aoi_id, data[i].raw, data[i].domain, <<>>).error # None
    THEN [error |-> "ValueError", observations |-> <<>>]
    ELSE [error |-> None,
          observations |->
            [i \in DOMAIN data |->
                LET made == NewObservation(data[i].aoi_id, data[i].raw, data[i].domain, <<>>).object
                    obs  == IF data[i].has_historical
                            THEN [made EXCEPT !.historical_magnitudes = data[i].magnitudes]
                            ELSE made
                IN  Process(obs, cfg, mults, "sigmoid", StaticRanges, TRUE).object]]

-----------------------------------------------------------------------------
(* The configurations and inputs the model draws *)

DeclaredDims == 64
SpecialBands == 20
RawGrid == 10

T1 == Thresholds(Milli(30), Milli(80), Milli(150), Milli(250))
\* only two of the four keys: the others fall back to the built-in defaults
T2 == [k \in {"minor_change", "critical_change"} |->
          IF k = "minor_change" THEN Milli(10) ELSE Milli(300)]
\* no thresholds at all
T3 == [k \in {} |-> 0]
\* not increasing
T4 == Thresholds(Milli(100), Milli(50), Milli(100), Milli(80))

ThresholdChoices == {T1, T2, T3, T4}

WBase == WeightBag(SpecialBands, Milli(1500), DeclaredDims)

WeightChoices ==
    { WeightBag(0, MICRO, DeclaredDims),
      WBase,
      WeightBag(SpecialBands, Milli(-2000), DeclaredDims),
      WeightBag(DeclaredDims, Milli(4000), DeclaredDims) }

DomainCfgs ==
    {DomainCfg(w, T1) : w \in WeightChoices} \cup {DomainCfg(WBase, t) : t \in ThresholdChoices}

NameSets == { SupportedDomains, SupportedDomains \ {"port"}, SupportedDomains \cup {"default"} }

\* port, energy and a 'default' entry of domains carry c, farm and mine the base entry
DomainMaps ==
    { [d \in names |-> IF d \in {"port", "energy", "default"} THEN c ELSE DomainCfg(WBase, T1)] :
        names \in NameSets, c \in DomainCfgs }

DefaultCfgs ==
    { DomainCfg(WeightBag(0, MICRO, DeclaredDims), T3),
      DomainCfg(WeightBag(SpecialBands, Milli(-2000), DeclaredDims), T1),
      DomainCfg(WBase, T4) }

\* configurations _validate_weights accepts
ScorerConfigs ==
    { MkConfig(RequiredKeys, DeclaredDims, doms, dflt) : doms \in DomainMaps, dflt \in DefaultCfgs }

ThresholdValues ==
    { Milli(10), Milli(20), Milli(30), Milli(50), Milli(80), Milli(100), Milli(150),
      Milli(250), Milli(300) }

\* raw magnitudes in [0, 1]: a grid and the values thresholds take
Raws == { (k * MICRO) \div RawGrid : k \in 0 .. RawGrid } \cup ThresholdValues

DomainArgs == {None, "default", "forest"} \cup SupportedDomains

-----------------------------------------------------------------------------
(* Spec: one AnomalyScorer, constructed on a configuration the loader      *)
(* accepts, serving calculate_anomaly_score and get_domain_multiplier.     *)

\* no call is in progress: the caller has taken the last result
Idle == [op |-> "idle", error |-> None]

\* no WeightsManager call was made yet, no analyzer constructed
StoreFresh(file) ==
    /\ disk = file
    /\ weights_data = NoObject
    /\ loaded = FALSE
    /\ analyzer_config = NoObject

\* no ConfidenceTracker is in use
TrackerAbsent ==
    /\ window_size = 0
    /\ observations = <<>>

\* TTLCache(): nothing stored, nothing set yet
CacheEmpty ==
    /\ cache_store = <<>>
    /\ clock = 0
    /\ last_set = <<>>

\* one caller, no thread besides it, and no AOIObservation constructed
SingleCaller ==
    /\ pc = <<>>
    /\ appended = <<>>
    /\ aoi = NoObject

ScorerConstructed(cfg) ==
    /\ config = cfg
    /\ domain_multipliers = CalculateDomainMultipliers(cfg)
    /\ scaler_method = "sigmoid"
    /\ min_max_range = StaticRanges

Init ==
    /\ \E cfg \in ScorerConfigs : ScorerConstructed(cfg) /\ StoreFresh(cfg)
    /\ TrackerAbsent
    /\ CacheEmpty
    /\ SingleCaller
    /\ res = Idle
    /\ calls = 0

CallCalculateAnomalyScore ==
    \E raw \in Raws, d \in DomainArgs, cl \in ConfidenceArgs :
        /\ res = Idle
        /\ ~IsNone(config)
        /\ res' = CalculateAnomalyScore(config, domain_multipliers, raw, d, cl)
        /\ UNCHANGED <<scorerVars, storeVars, trackerVars, cacheVars, callerVars>>

CallGetDomainMultiplier ==
    \E d \in DomainArgs \ {None} :
        /\ res = Idle
        /\ res' = [op |-> "get_domain_multiplier", error |-> None, args |-> <<d>>,
                   value |-> GetDomainMultiplier(domain_multipliers, d)]
        /\ UNCHANGED <<scorerVars, storeVars, trackerVars, cacheVars, callerVars>>

\* the caller takes the result; the next call can start
Return ==
    /\ res # Idle
    /\ res' = Idle
    /\ UNCHANGED <<scorerVars, storeVars, trackerVars, cacheVars, callerVars>>

Next == CallCalculateAnomalyScore \/ CallGetDomainMultiplier \/ Return

Spec == Init /\ [][Next]_vars

-----------------------------------------------------------------------------
(* Properties of the basic path, checked under Spec *)

IsScore(r) ==
    r.op \in {"calculate_anomaly_score", "calculate_scaled_anomaly_score"} /\ r.error = None

AnomalyLevels == {"normal", "low", "medium", "high", "critical"}

\* C1: on the basic path the score is min(1, raw_magnitude * domain_multiplier *
\* confidence_factor), lies in [0, 1], and for a fixed domain and confidence
\* level no smaller raw magnitude gets a larger score (as classified or as
\* returned, rounded to four decimals).
C1_BasicScoreMonotone ==
    (res.op = "calculate_anomaly_score" /\ res.error = None) =>
        LET raw  == res.args[1]
            mult == domain_multipliers[res.domain]
            cf   == CASE res.args[3] = "medium" -> Milli(900)
                      [] res.args[3] = "low"    -> Milli(750)
                      [] OTHER                  -> MICRO
        IN  /\ res.score = Min(MICRO, MulFx(MulFx(raw, mult), cf))
            /\ res.score >= 0 /\ res.score <= MICRO
            /\ res.anomaly_score >= 0 /\ res.anomaly_score <= MICRO
            /\ \A r2 \in Raws :
                  r2 <= raw =>
                      LET lower == CalculateAnomalyScore(config, domain_multipliers, r2,
                                                         res.args[2], res.args[3])
                      IN  /\ lower.error = None
                          /\ lower.score <= res.score
                          /\ lower.anomaly_score <= res.anomaly_score

\* the soft cap is what bounds the score: the product exceeds 1
C1_Witness ==
    /\ res.op = "calculate_anomaly_score" /\ res.error = None
    /\ MulFx(res.args[1], domain_multipliers[res.domain]) > MICRO
    /\ res.score = MICRO
    /\ \E r2 \in Raws :
          r2 < res.args[1] /\
          CalculateAnomalyScore(config, domain_multipliers, r2, res.args[2],
                                res.args[3]).anomaly_score < res.anomaly_score

\* the four thresholds _determine_anomaly_level compares with, built-in defaults filled in
FourThresholds(t) ==
    <<Get(t, "minor_change", Milli(20)), Get(t, "moderate_change", Milli(50)),
      Get(t, "major_change", Milli(100)), Get(t, "critical_change", Milli(150))>>

Ascending(q) == q[1] < q[2] /\ q[2] < q[3] /\ q[3] < q[4]

\* C2: every score gets exactly one of the five levels; with the domain's four
\* thresholds in ascending order the level is the band the score lies in, a
\* score equal to a threshold falling in the higher band.
C2_ThresholdInHigherBand ==
    IsScore(res) =>
        LET q == FourThresholds(LevelThresholds(config, res.domain))
        IN  /\ res.anomaly_level \in AnomalyLevels
            /\ Ascending(q) =>
                  /\ res.score = q[1] => res.anomaly_level = "low"
                  /\ res.score = q[2] => res.anomaly_level = "medium"
                  /\ res.score = q[3] => res.anomaly_level = "high"
                  /\ res.score = q[4] => res.anomaly_level = "critical"
                  /\ res.anomaly_level = "normal"   <=> res.score < q[1]
                  /\ res.anomaly_level = "low"      <=> (q[1] <= res.score /\ res.score < q[2])
                  /\ res.anomaly_level = "medium"   <=> (q[2] <= res.score /\ res.score < q[3])
                  /\ res.anomaly_level = "high"     <=> (q[3] <= res.score /\ res.score < q[4])
                  /\ res.anomaly_level = "critical" <=> q[4] <= res.score

\* a score exactly on the major_change threshold, classified high
C2_Witness ==
    /\ IsScore(res)
    /\ Ascending(FourThresholds(LevelThresholds(config, res.domain)))
    /\ res.score = FourThresholds(LevelThresholds(config, res.domain))[3]
    /\ res.anomaly_level = "high"

\* C6: the multiplier of the default domain is exactly 1.0 whatever the
\* configuration holds, and so is the multiplier returned for a domain the
\* configuration does not know.
C6_DefaultMultiplierIsOne ==
    /\ "default" \in DOMAIN domain_multipliers
    /\ domain_multipliers["default"] = MICRO
    /\ (res.op = "get_domain_multiplier" /\ res.args[1] = "default") => res.value = MICRO
    /\ (res.op = "get_domain_multiplier" /\ res.args[1] \notin DOMAIN config.domains)
          => res.value = MICRO
    /\ (res.op = "calculate_anomaly_score" /\ res.error = None /\ res.domain = "default")
          => res.domain_multiplier = MICRO

\* config['domains'] has its own 'default' entry, whose weights would give 1.3125
C6_Witness ==
    /\ "default" \in DOMAIN config.domains
    /\ WeightsMultiplier(config.domains["default"].weights) > MICRO
    /\ res.op = "get_domain_multiplier" /\ res.args[1] = "default"
    /\ res.value = MICRO

-----------------------------------------------------------------------------
(* SpecScaler: one AnomalyScorer and the MagnitudeScaler it owns, serving  *)
(* scale, batch_scale and calculate_scaled_anomaly_score.                  *)

MaxAdaptiveCalls == 1

ScalerConfigs ==
    { cfg \in ScorerConfigs :
        /\ DOMAIN cfg.domains = SupportedDomains
        /\ cfg.default.thresholds = T3
        /\ cfg.domains["port"].thresholds = T1
        /\ cfg.domains["port"].weights \in
              {WeightBag(0, MICRO, DeclaredDims),
               WeightBag(SpecialBands, Milli(-2000), DeclaredDims)} }

ScaleValues ==
    { -100 * MICRO, -MICRO, 0, Milli(120), Milli(300), MICRO, Milli(2500), 100 * MICRO }

BatchValues ==
    { <<>>, <<-MICRO, Milli(200), 2 * MICRO>>, <<Milli(300), Milli(300)>>,
      <<Milli(200), Milli(400)>> }

Histories == { NoList, <<>>, <<Milli(50)>>, <<Milli(100), Milli(400)>> }

ScaledRaws == { 0, Milli(50), Milli(100), Milli(300), Milli(600), MICRO }

InitScaler ==
    /\ \E cfg \in ScalerConfigs :
          /\ config = cfg
          /\ domain_multipliers = CalculateDomainMultipliers(cfg)
          /\ StoreFresh(cfg)
    /\ TrackerAbsent
    /\ CacheEmpty
    /\ scaler_method \in ScalingMethods
    /\ min_max_range = StaticRanges
    /\ SingleCaller
    /\ res = Idle
    /\ calls = 0

CallScale ==
    \E value \in ScaleValues, d \in {"port", "farm", "energy", "forest"} :
        /\ res = Idle
        /\ res' = [op |-> "scale", error |-> None, args |-> <<value, d>>,
                   value |-> Scale(scaler_method, min_max_range, value, d, None)]
        /\ UNCHANGED <<scorerVars, storeVars, trackerVars, cacheVars, callerVars>>

CallBatchScale ==
    \E values \in BatchValues, d \in {"farm", "forest"}, adaptive \in BOOLEAN :
        /\ res = Idle
        /\ BatchCustom(scaler_method, values, adaptive) # None => calls < MaxAdaptiveCalls
        /\ res' = [op |-> "batch_scale", error |-> None, args |-> <<values, d, adaptive>>,
                   value |-> BatchScale(scaler_method, min_max_range, values, d, adaptive)]
        /\ min_max_range' = BatchRangesAfter(scaler_method, min_max_range, values, d, adaptive)
        /\ calls' = IF BatchCustom(scaler_method, values, adaptive) # None
                    THEN calls + 1 ELSE calls
        /\ UNCHANGED <<config, domain_multipliers, scaler_method, storeVars, trackerVars, cacheVars, callerVars>>

CallCalculateScaledAnomalyScore ==
    \E raw \in ScaledRaws, d \in DomainArgs, cl \in {None, "low"}, h \in Histories :
        LET domain == ResolveDomain(domain_multipliers, d)
            mult   == domain_multipliers[domain]
        IN  /\ res = Idle
            /\ domain \in DOMAIN domain_multipliers
            /\ Adaptive(domain, h) => calls < MaxAdaptiveCalls
            /\ res' = CalculateScaledAnomalyScore(config, domain_multipliers, min_max_range,
                                                  raw, d, cl, h)
            /\ scaler_method' = MethodFor(domain)
            /\ min_max_range' = ScaledRangesAfter(min_max_range, MulFx(raw, mult), domain,
                                                  mult, h)
            /\ calls' = IF Adaptive(domain, h) THEN calls + 1 ELSE calls
            /\ UNCHANGED <<config, domain_multipliers, storeVars, trackerVars, cacheVars, callerVars>>

NextScaler == CallScale \/ CallBatchScale \/ CallCalculateScaledAnomalyScore \/ Return

SpecScaler == InitScaler /\ [][NextScaler]_vars

-----------------------------------------------------------------------------
(* Properties of the scaler and the scaled path, checked under SpecScaler *)

InUnit(x) == 0 <= x /\ x <= MICRO

\* C5: whatever the method, the domain and the value, scale returns a value
\* in [0, 1], and so is every element batch_scale returns, adaptive or not.
C5_ScaleInUnitInterval ==
    /\ res.op = "scale" => InUnit(res.value)
    /\ res.op = "batch_scale" =>
          /\ Len(res.value) = Len(res.args[1])
          /\ \A i \in DOMAIN res.value : InUnit(res.value[i])

\* an adaptive min-max batch: a negative element is clamped to 0, the largest
\* lies strictly inside the padded range
C5_Witness ==
    /\ res.op = "batch_scale" /\ res.args[3] /\ scaler_method = "min_max"
    /\ Len(res.args[1]) = 3 /\ res.args[1][1] < 0 /\ res.value[1] = 0
    /\ res.value[3] > Milli(500) /\ res.value[3] < MICRO

\* C7: a result depends on the call's arguments only: scale and the scaled path
\* return what a freshly constructed scaler returns, and the static min-max
\* ranges of the domains are never changed.
C7_ScalerStateless ==
    /\ min_max_range = StaticRanges
    /\ res.op = "scale" =>
          res.value = Scale(scaler_method, StaticRanges, res.args[1], res.args[2], None)
    /\ res.op = "calculate_scaled_anomaly_score" =>
          res = CalculateScaledAnomalyScore(config, domain_multipliers, StaticRanges,
                                            res.args[1], res.args[2], res.args[3], res.args[4])

\* C8: on the scaled path, for a fixed domain, confidence level and history,
\* no smaller raw magnitude gets a larger anomaly score.
C8_ScaledScoreMonotone ==
    (res.op = "calculate_scaled_anomaly_score" /\ res.error = None) =>
        \A r2 \in ScaledRaws :
            r2 <= res.args[1] =>
                CalculateScaledAnomalyScore(config, domain_multipliers, min_max_range, r2,
                    res.args[2], res.args[3], res.args[4]).anomaly_score <= res.anomaly_score

-----------------------------------------------------------------------------
(* SpecStore: weights.json as found on disk, the WeightsManager singleton, *)
(* and an AnomalyScorer and a WeightedEmbeddingAnalyzer constructed on the *)
(* same file.                                                              *)

BaseEntry == DomainCfg(WBase, T1)
BaseDomains == [d \in SupportedDomains |-> BaseEntry]
BaseDefault == DomainCfg(WeightBag(0, MICRO, DeclaredDims), T1)

\* the entry d of the base file replaced by e
WithEntry(d, e) == [BaseDomains EXCEPT ![d] = e]

ShortWeights == WeightBag(SpecialBands, Milli(1500), DeclaredDims - 1)

NoWeights == [has_weights |-> FALSE, weights |-> <<>>, thresholds |-> T1, has_name |-> TRUE]

\* files that parse as a JSON object
StoreConfigs ==
    { MkConfig(RequiredKeys, DeclaredDims, BaseDomains, BaseDefault),
      MkConfig(RequiredKeys, DeclaredDims,
               [d \in SupportedDomains \ {"port"} |-> BaseEntry], BaseDefault),
      MkConfig(RequiredKeys, DeclaredDims, WithEntry("port", DomainCfg(WBase, T4)), BaseDefault),
      MkConfig(RequiredKeys, DeclaredDims, WithEntry("port", DomainCfg(WBase, T2)), BaseDefault),
      MkConfig(RequiredKeys, DeclaredDims, BaseDomains, DomainCfg(WBase, T3)),
      MkConfig(RequiredKeys, DeclaredDims,
               WithEntry("port", DomainCfg(ShortWeights, T1)), BaseDefault),
      MkConfig(RequiredKeys, DeclaredDims, BaseDomains, DomainCfg(ShortWeights, T1)),
      MkConfig(RequiredKeys, DeclaredDims - 1, BaseDomains, BaseDefault),
      MkConfig(RequiredKeys, DeclaredDims, WithEntry("farm", NoWeights), BaseDefault),
      MkConfig(RequiredKeys, DeclaredDims, BaseDomains, NoWeights),
      MkConfig(RequiredKeys \ {"version"}, DeclaredDims, BaseDomains, BaseDefault),
      MkConfig(RequiredKeys \ {"default"}, DeclaredDims, BaseDomains, BaseDefault),
      MkConfig(RequiredKeys \ {"domains"}, DeclaredDims, BaseDomains, BaseDefault),
      MkConfig({}, DeclaredDims, BaseDomains, BaseDefault) }

StoreFiles == {FileMissing, FileMalformed} \cup StoreConfigs

StoreDomainArgs == {"port", "farm", "forest"}

InitStore ==
    /\ \E file \in StoreFiles : StoreFresh(file)
    /\ config = NoObject
    /\ domain_multipliers = <<>>
    /\ scaler_method = None
    /\ min_max_range = StaticRanges
    /\ calls = 0
    /\ TrackerAbsent
    /\ CacheEmpty
    /\ SingleCaller
    /\ res = Idle

CallLoadWeights ==
    LET out == LoadWeights(disk, weights_data, loaded)
    IN  /\ res = Idle
        /\ res' = IF out.error # None THEN Raised("load_weights", out.error)
                  ELSE [op |-> "load_weights", error |-> None, value |-> out.data]
        /\ weights_data' = out.data
        /\ loaded' = out.loaded
        /\ UNCHANGED <<scorerVars, disk, analyzer_config, trackerVars, cacheVars, callerVars>>

CallReloadWeights ==
    LET out == ReloadWeights(disk)
    IN  /\ res = Idle
        /\ res' = IF out.error # None THEN Raised("reload_weights", out.error)
                  ELSE [op |-> "reload_weights", error |-> None, value |-> out.data]
        /\ weights_data' = out.data
        /\ loaded' = out.loaded
        /\ UNCHANGED <<scorerVars, disk, analyzer_config, trackerVars, cacheVars, callerVars>>

\* one of the getters, which load the file first when nothing is loaded
CallGetter ==
    \E d \in StoreDomainArgs :
        LET ensured == EnsureLoaded(disk, weights_data, loaded)
        IN  /\ res = Idle
            /\ res' \in { GetDomainWeights(ensured, d), GetDomainConfig(ensured, d),
                          GetThresholds(ensured, d), GetAllDomains(ensured) }
            /\ weights_data' = ensured.data
            /\ loaded' = ensured.loaded
            /\ UNCHANGED <<scorerVars, disk, analyzer_config, trackerVars, cacheVars, callerVars>>

ConstructAnomalyScorer ==
    /\ res = Idle
    /\ IF ScorerInit(disk) # None
       THEN /\ res' = Raised("AnomalyScorer", ScorerInit(disk))
            /\ UNCHANGED scorerVars
       ELSE /\ res' = [op |-> "AnomalyScorer", error |-> None]
            /\ config' = disk
            /\ domain_multipliers' = CalculateDomainMultipliers(disk)
            /\ scaler_method' = "sigmoid"
            /\ min_max_range' = StaticRanges
            /\ UNCHANGED calls
    /\ UNCHANGED <<storeVars, trackerVars, cacheVars, callerVars>>

ConstructAnalyzer ==
    /\ res = Idle
    /\ IF AnalyzerInit(disk) # None
       THEN /\ res' = Raised("WeightedEmbeddingAnalyzer", AnalyzerInit(disk))
            /\ UNCHANGED analyzer_config
       ELSE /\ res' = [op |-> "WeightedEmbeddingAnalyzer", error |-> None]
            /\ analyzer_config' = disk
    /\ UNCHANGED <<scorerVars, disk, weights_data, loaded, trackerVars, cacheVars, callerVars>>

CallAnalyzerGetDomainWeights ==
    \E d \in StoreDomainArgs :
        /\ res = Idle
        /\ ~IsNone(analyzer_config)
        /\ res' = AnalyzerGetDomainWeights(analyzer_config, d)
        /\ UNCHANGED <<scorerVars, storeVars, trackerVars, cacheVars, callerVars>>

NextStore ==
    \/ CallLoadWeights
    \/ CallReloadWeights
    \/ CallGetter
    \/ ConstructAnomalyScorer
    \/ CallCalculateAnomalyScore
    \/ ConstructAnalyzer
    \/ CallAnalyzerGetDomainWeights
    \/ Return

SpecStore == InitStore /\ [][NextStore]_vars

-----------------------------------------------------------------------------
(* Properties of the weight store, checked under SpecStore *)

\* an entry as the specification requires it: the declared number of weights
\* and four strictly increasing thresholds
EntryComplete(entry, dims) ==
    /\ entry.has_weights
    /\ WeightsLen(entry.weights) = dims
    /\ DOMAIN entry.thresholds = ThresholdKeys
    /\ Ascending(FourThresholds(entry.thresholds))

\* a configuration as the specification requires it
ConfigurationComplete(data) ==
    /\ IsDict(data)
    /\ RequiredKeys \subseteq data.keys
    /\ SupportedDomains \subseteq DOMAIN data.domains
    /\ \A d \in DOMAIN data.domains : EntryComplete(data.domains[d], data.embedding_dimensions)
    /\ EntryComplete(data.default, data.embedding_dimensions)

\* C9: load_weights returns a configuration only if it has an entry for every
\* supported domain and for default, each with the declared number of weights
\* and four strictly increasing thresholds; for any other file it raises.
C9_LoadRequiresCompleteConfiguration ==
    res.op = "load_weights" =>
        /\ res.error = None => ConfigurationComplete(res.value)
        /\ ~ConfigurationComplete(disk) => res.error # None

\* the configuration passed _validate_weights
Validated(data) == IsDict(data) /\ ValidateWeights(data) = None

\* C10: no component holds or answers from a configuration that did not pass
\* validation: not the manager's getters, not a constructed AnomalyScorer,
\* not a constructed WeightedEmbeddingAnalyzer.
C10_OnlyValidatedConfigurations ==
    /\ loaded => Validated(weights_data)
    /\ res.op \in {"load_weights", "reload_weights", "get_domain_weights", "get_domain_config",
                   "get_thresholds", "get_all_domains"} /\ res.error = None
          => Validated(weights_data)
    /\ ~IsNone(config) => Validated(config)
    /\ ~IsNone(analyzer_config) => Validated(analyzer_config)
    /\ res.op = "calculate_anomaly_score" /\ res.error = None => Validated(config)
    /\ res.op = "analyzer.get_domain_weights" /\ res.error = None => Validated(analyzer_config)

-----------------------------------------------------------------------------
(* SpecConfidence: one ConfidenceTracker with the ConfidenceCalculator it  *)
(* owns, and calculate_confidence called directly.                         *)

MaxWindow == 4

WindowSizes == {2, MaxWindow}

\* "aoi-2" is queried and cleared but never observed
Entities == {"aoi-1", "aoi-2"}
ObservedEntities == {"aoi-1"}

ObsValues == {Milli(100), Milli(500)}

CurrentValues == {NoNumber, Milli(100), Milli(900)}

ObservationLists ==
    { <<>>, <<Milli(500)>>, <<0, 0>>, <<-MICRO, 30 * MICRO>>,
      <<0, 0, 0>>, <<Milli(100), Milli(100), Milli(100)>>,
      <<Milli(100), Milli(500), Milli(100)>>,
      <<Milli(100), Milli(200), Milli(300), Milli(400)>> }

InitConfidence ==
    /\ window_size \in WindowSizes
    /\ observations = <<>>
    /\ CacheEmpty
    /\ config = NoObject
    /\ domain_multipliers = <<>>
    /\ scaler_method = None
    /\ min_max_range = StaticRanges
    /\ calls = 0
    /\ StoreFresh(FileMissing)
    /\ SingleCaller
    /\ res = Idle

\* add_observation returns nothing
CallAddObservation ==
    \E e \in ObservedEntities, m \in ObsValues, d \in {None, "farm"} :
        /\ res = Idle
        /\ observations' = AddObservation(observations, window_size, e, m, d)
        /\ UNCHANGED <<scorerVars, storeVars, window_size, cacheVars, callerVars, res>>

CallGetConfidence ==
    \E e \in Entities, cur \in CurrentValues :
        /\ res = Idle
        /\ res' = GetConfidence(observations, e, cur)
        /\ UNCHANGED <<scorerVars, storeVars, trackerVars, cacheVars, callerVars>>

CallClearEntity ==
    \E e \in Entities :
        /\ res = Idle
        /\ observations' = ClearEntity(observations, e)
        /\ UNCHANGED <<scorerVars, storeVars, window_size, cacheVars, callerVars, res>>

CallCalculateConfidence ==
    \E obs \in ObservationLists, cur \in CurrentValues, d \in {None, "port"} :
        /\ res = Idle
        /\ res' = CalculateConfidence(obs, cur, d)
        /\ UNCHANGED <<scorerVars, storeVars, trackerVars, cacheVars, callerVars>>

NextConfidence ==
    \/ CallAddObservation
    \/ CallGetConfidence
    \/ CallClearEntity
    \/ CallCalculateConfidence
    \/ Return

SpecConfidence == InitConfidence /\ [][NextConfidence]_vars

-----------------------------------------------------------------------------
(* Properties of the confidence metrics, checked under SpecConfidence *)

IsInsufficient(r) ==
    /\ r.error = None
    /\ r.confidence_level = "insufficient_data"
    /\ r.confidence_score = 0

\* the observations the tracker holds for an entity, none for one it does not know
Recorded(e) == IF e \in DOMAIN observations THEN observations[e].values ELSE <<>>

\* C4: calculate_confidence with fewer than 3 observations returns level
\* insufficient_data and score 0.0 whatever the history holds and whatever the
\* current value and the domain are; so does get_confidence for an entity the
\* tracker does not hold (never observed, or cleared) or holds fewer than 3
\* observations of.
C4_InsufficientBelowThree ==
    /\ (res.op = "calculate_confidence" /\ Len(res.args[1]) < 3) => IsInsufficient(res)
    /\ (res.op = "get_confidence" /\ Len(Recorded(res.args[1])) < 3) => IsInsufficient(res)

\* two observations are recorded, in a window that holds more, and a current
\* value is given
C4_Witness ==
    /\ res.op = "get_confidence"
    /\ res.args[1] \in DOMAIN observations
    /\ window_size > 2
    /\ Len(Recorded(res.args[1])) = 2
    /\ res.args[2] # NoNumber
    /\ IsInsufficient(res)

-----------------------------------------------------------------------------
(* SpecAssessment: _generate_combined_assessment of a constructed scorer   *)

ConfidenceScores == {0, Milli(300), 849950, MICRO}

InitAssessment ==
    /\ ScorerConstructed(MkConfig(RequiredKeys, DeclaredDims, BaseDomains, BaseDefault))
    /\ calls = 0
    /\ StoreFresh(MkConfig(RequiredKeys, DeclaredDims, BaseDomains, BaseDefault))
    /\ TrackerAbsent
    /\ CacheEmpty
    /\ SingleCaller
    /\ res = Idle

CallGenerateCombinedAssessment ==
    \E al \in AnomalyLevels, cl \in ConfidenceLevels, cs \in ConfidenceScores :
        /\ res = Idle
        /\ res' = CombinedAssessment(al, cl, cs)
        /\ UNCHANGED <<scorerVars, storeVars, trackerVars, cacheVars, callerVars>>

NextAssessment == CallGenerateCombinedAssessment \/ Return

SpecAssessment == InitAssessment /\ [][NextAssessment]_vars

PriorityLabels == {"CRITICAL", "HIGH", "MEDIUM", "LOW", "INFO"}

\* C3: each of the 5 anomaly levels with each of the 6 confidence levels gets
\* one priority, whose label is CRITICAL, HIGH, MEDIUM, LOW or INFO, a label
\* sort_by_priority has a rank for.
C3_PriorityMatrixTotal ==
    res.op = "_generate_combined_assessment" =>
        /\ res.error = None
        /\ res.priority = Priority(res.args[1], res.args[2])
        /\ Len(res.priority) = 2
        /\ PriorityLabel(res.priority) \in PriorityLabels
        /\ PriorityOrder(PriorityLabel(res.priority)) < Cardinality(PriorityLabels)

\* a combination only the last else branch covers
C3_Witness ==
    /\ res.op = "_generate_combined_assessment"
    /\ res.args[1] = "low" /\ res.args[2] = "insufficient_data"
    /\ PriorityLabel(res.priority) = "INFO"

-----------------------------------------------------------------------------
(* SpecReload: the WeightsManager singleton, loaded at startup, shared by  *)
(* a thread that reloads and a thread that reads.  A thread runs one       *)
(* statement of weights_loader.py per step; the labels are its line        *)
(* numbers.  The file on disk is replaced from outside at any time.        *)

\* a thread outside any call
ThreadIdle == [at |-> "idle"]

\* a thread about to run the statement at line `at` of the call `op`
At(t, at) == [t EXCEPT !.at = at]

\* the call of a thread ended by raising e
RaisedAt(t, e) == [t EXCEPT !.at = "done", !.error = e]

\* reload_weights, lines 170-172: the flag is cleared, then the data, then
\* load_weights is entered; the manager's fields and the thread after the step
ReloadStep(t, data, is_loaded) ==
    IF t.at = "L170" THEN [thread |-> At(t, "L171"), data |-> data, loaded |-> FALSE]
    ELSE [thread |-> At(t, "L41"), data |-> NoObject, loaded |-> is_loaded]

\* where a thread continues when its load_weights returns
AfterLoad(t) == IF t.op = "reload_weights" THEN "done" ELSE "L125"

\* load_weights, one statement at a time: the cache test (41), the file test
\* (53), open and the assignment of the parsed file (58-59), the validation
\* of self._weights_data (62), the flag (65)
LoadStep(t, file, data, is_loaded) ==
    CASE t.at = "L41" ->
            [thread |-> At(t, IF is_loaded /\ Truthy(data) THEN AfterLoad(t) ELSE "L53"),
             data |-> data, loaded |-> is_loaded]
      [] t.at = "L53" ->
            [thread |-> IF file = FileMissing THEN RaisedAt(t, "FileNotFoundError")
                        ELSE At(t, "L59"),
             data |-> data, loaded |-> is_loaded]
      [] t.at = "L59" ->
            IF ~IsDict(file)
            THEN [thread |-> RaisedAt(t, IF file = FileMissing THEN "FileNotFoundError"
                                         ELSE "JSONDecodeError"),
                  data |-> data, loaded |-> is_loaded]
            ELSE [thread |-> At(t, "L62"), data |-> file, loaded |-> is_loaded]
      [] t.at = "L62" ->
            [thread |-> IF IsNone(data) THEN RaisedAt(t, "TypeError")
                        ELSE IF ValidateWeights(data) # None
                        THEN RaisedAt(t, ValidateWeights(data))
                        ELSE At(t, "L65"),
             data |-> data, loaded |-> is_loaded]
      [] OTHER ->
            [thread |-> At(t, AfterLoad(t)), data |-> data, loaded |-> TRUE]

\* what a getter returns from the entry it found
EntryValue(op, entry) ==
    CASE op = "get_domain_weights" -> entry.weights
      [] op = "get_thresholds" -> entry.thresholds
      [] OTHER -> entry

\* a getter after its load: the test `domain in self._weights_data['domains']`
\* (125, 144), then the second read of self._weights_data that returns (126-129,
\* 145-147)
GetterStep(t, data) ==
    IF IsNone(data) THEN RaisedAt(t, "TypeError")
    ELSE IF t.at = "L125"
    THEN IF "domains" \notin data.keys THEN RaisedAt(t, "KeyError")
         ELSE [At(t, "L126") EXCEPT !.found = t.domain \in DOMAIN data.domains]
    ELSE IF t.found /\ ("domains" \notin data.keys \/ t.domain \notin DOMAIN data.domains)
    THEN RaisedAt(t, "KeyError")
    ELSE IF ~t.found /\ "default" \notin data.keys THEN RaisedAt(t, "KeyError")
    ELSE LET entry == IF t.found THEN data.domains[t.domain] ELSE data.default
         IN  IF t.op = "get_domain_weights" /\ ~entry.has_weights
             THEN RaisedAt(t, "KeyError")
             ELSE [At(t, "done") EXCEPT !.value = EntryValue(t.op, entry)]

Readers == {"get_domain_weights", "get_domain_config", "get_thresholds"}

LoadLabels == {"L41", "L53", "L59", "L62", "L65"}

\* the files an operator puts in place: the base file, one without the port
\* entry, one whose port entry is one weight short, and none
ReloadFiles ==
    { MkConfig(RequiredKeys, DeclaredDims, BaseDomains, BaseDefault),
      MkConfig(RequiredKeys, DeclaredDims,
               [d \in SupportedDomains \ {"port"} |-> DomainCfg(WBase, T2)],
               DomainCfg(WBase, T2)),
      MkConfig(RequiredKeys, DeclaredDims,
               WithEntry("port", DomainCfg(ShortWeights, T1)), BaseDefault),
      FileMissing }

InitReload ==
    /\ \E file \in ReloadFiles :
          /\ IsDict(file) /\ ValidateWeights(file) = None
          /\ disk = file /\ weights_data = file /\ loaded = TRUE
    /\ analyzer_config = NoObject
    /\ config = NoObject
    /\ domain_multipliers = <<>>
    /\ scaler_method = None
    /\ min_max_range = StaticRanges
    /\ calls = 0
    /\ TrackerAbsent
    /\ CacheEmpty
    /\ pc = [t \in {"reloader", "reader"} |-> ThreadIdle]
    /\ appended = <<>>
    /\ aoi = NoObject
    /\ res = Idle

reloadFrame == <<scorerVars, analyzer_config, trackerVars, cacheVars, appended, aoi, res>>

\* weights.json is replaced on disk
EditFile ==
    /\ disk' \in ReloadFiles \ {disk}
    /\ UNCHANGED <<weights_data, loaded, pc, reloadFrame>>

StartReload ==
    /\ pc["reloader"] = ThreadIdle
    /\ pc' = [pc EXCEPT !["reloader"] =
                 [at |-> "L170", op |-> "reload_weights", error |-> None]]
    /\ UNCHANGED <<disk, weights_data, loaded, reloadFrame>>

StartGetter ==
    \E op \in Readers, d \in {"port", "forest"} :
        /\ pc["reader"] = ThreadIdle
        /\ pc' = [pc EXCEPT !["reader"] =
                     [at |-> "L122", op |-> op, domain |-> d, found |-> FALSE,
                      error |-> None, value |-> NoObject]]
        /\ UNCHANGED <<disk, weights_data, loaded, reloadFrame>>

\* the reloading thread clears the cache
StepReload ==
    LET out == ReloadStep(pc["reloader"], weights_data, loaded)
    IN  /\ pc["reloader"].at \in {"L170", "L171"}
        /\ pc' = [pc EXCEPT !["reloader"] = out.thread]
        /\ weights_data' = out.data
        /\ loaded' = out.loaded
        /\ UNCHANGED <<disk, reloadFrame>>

\* either thread runs a statement of load_weights
StepLoad ==
    \E t \in DOMAIN pc :
        LET out == LoadStep(pc[t], disk, weights_data, loaded)
        IN  /\ pc[t].at \in LoadLabels
            /\ pc' = [pc EXCEPT ![t] = out.thread]
            /\ weights_data' = out.data
            /\ loaded' = out.loaded
            /\ UNCHANGED <<disk, reloadFrame>>

\* the reader tests self._loaded (122, 141) and enters load_weights if it is unset
StepEnsureLoaded ==
    /\ pc["reader"].at = "L122"
    /\ pc' = [pc EXCEPT !["reader"] = At(@, IF loaded THEN "L125" ELSE "L41")]
    /\ UNCHANGED <<disk, weights_data, loaded, reloadFrame>>

StepGetter ==
    /\ pc["reader"].at \in {"L125", "L126"}
    /\ pc' = [pc EXCEPT !["reader"] = GetterStep(@, weights_data)]
    /\ UNCHANGED <<disk, weights_data, loaded, reloadFrame>>

\* a thread's caller takes what the call returned or raised
Finish ==
    \E t \in DOMAIN pc :
        /\ pc[t].at = "done"
        /\ pc' = [pc EXCEPT ![t] = ThreadIdle]
        /\ UNCHANGED <<disk, weights_data, loaded, reloadFrame>>

NextReload ==
    \/ EditFile
    \/ StartReload
    \/ StartGetter
    \/ StepReload
    \/ StepLoad
    \/ StepEnsureLoaded
    \/ StepGetter
    \/ Finish

SpecReload == InitReload /\ [][NextReload]_vars

\* what the getter op returns for domain d from the configuration f
GetterValue(op, f, d) == EntryValue(op, DomainConfigOf(f, d))

\* C11: a reader that runs while the configuration is reloaded returns, and
\* what it returns is what its getter yields on one whole configuration that
\* the loader validated; it never raises.
C11_ReloadIsAtomicSwap ==
    pc["reader"].at = "done" =>
        /\ pc["reader"].error = None
        /\ \E f \in ReloadFiles :
              /\ IsDict(f) /\ ValidateWeights(f) = None
              /\ pc["reader"].value = GetterValue(pc["reader"].op, f, pc["reader"].domain)

-----------------------------------------------------------------------------
(* SpecObservation: one AOIObservationBatch with its AnomalyScorer.  The   *)
(* TTLCache of cache.py.  A store maps a key to (expires_at, value).        *)

TTL_SECONDS == 12 * 60 * 60

\* a get that returns whatever is stored, expired or not
GetStored(store, key, now) ==
    IF key \notin DOMAIN store THEN [value |-> None, store |-> store]
    ELSE [value |-> store[key][2], store |-> store]

\* TTLCache.get at the time now: what it returns and the store after it
TtlGet(store, key, now) ==
    IF key \notin DOMAIN store THEN [value |-> None, store |-> store]
    ELSE IF now > store[key][1]
    THEN [value |-> None, store |-> [k \in DOMAIN store \ {key} |-> store[k]]]
    ELSE [value |-> store[key][2], store |-> store]

\* TTLCache.set at the time now: the store after it; ttl is NoNumber when the
\* caller gives none
TtlSet(store, default_ttl, key, value, ttl, now) ==
    LET used == IF ttl # NoNumber THEN ttl ELSE default_ttl
    IN  [k \in DOMAIN store \cup {key} |->
            IF k = key THEN <<now + used, value>> ELSE store[k]]

(* variable aoi holds the batch's observations.  Observations are made by  *)
(* the constructor, by create_and_add and by load_from_json, get history   *)
(* appended, and are processed.                                            *)

MaxBatch == 1
MaxHistory == 3

PortLa == <<"p", "o", "r", "t", "-", "l", "a">>
FarmIowa == <<"f", "a", "r", "m", "-", "i", "o", "w", "a">>

AoiIds == {PortLa, <<>>}

\* magnitudes a caller passes: in range, on the upper end, above, below
Magnitudes == {Milli(150), MICRO, Milli(1500), 0 - Milli(100)}

\* histories a caller passes: none, nearly constant, spread, and one with a
\* value that is no magnitude
HistoryArgs ==
    { <<>>, <<0, 0, Milli(3)>>,
      <<Milli(100), Milli(200), Milli(300)>>,
      <<Milli(500), 5 * MICRO, Milli(500)>> }

\* the documents save_to_json leaves or an operator edits
SavedBatches ==
    { <<>>,
      <<[aoi_id |-> PortLa, raw |-> Milli(150), domain |-> "port",
         has_historical |-> FALSE, magnitudes |-> <<>>]>>,
      <<[aoi_id |-> FarmIowa, raw |-> Milli(150), domain |-> "farm",
         has_historical |-> TRUE, magnitudes |-> <<Milli(100), 0 - MICRO, Milli(100)>>]>>,
      <<[aoi_id |-> PortLa, raw |-> 2 * MICRO, domain |-> "port",
         has_historical |-> FALSE, magnitudes |-> <<>>]>> }

ObservationConfig == MkConfig(RequiredKeys, DeclaredDims, BaseDomains, BaseDefault)

InitObservation ==
    /\ ScorerConstructed(ObservationConfig)
    /\ StoreFresh(ObservationConfig)
    /\ calls = 0
    /\ TrackerAbsent
    /\ CacheEmpty
    /\ pc = <<>>
    /\ appended = <<>>
    /\ aoi = <<>>
    /\ res = Idle

observationFrame == <<config, domain_multipliers, calls, storeVars, trackerVars, cacheVars, pc, appended>>

\* AOIObservationBatch(): an empty batch with a new AnomalyScorer
NewBatch ==
    /\ res = Idle
    /\ aoi # <<>>
    /\ aoi' = <<>>
    /\ scaler_method' = "sigmoid"
    /\ min_max_range' = StaticRanges
    /\ UNCHANGED <<observationFrame, res>>

\* AOIObservation(aoi_id, raw_magnitude, domain, historical_magnitudes)
ConstructObservation ==
    \E id \in AoiIds, m \in Magnitudes, h \in HistoryArgs :
        LET made == NewObservation(id, m, "default", h)
        IN  /\ res = Idle
            /\ res' = [op |-> "AOIObservation", error |-> made.error,
                       args |-> <<id, m, h>>, value |-> made.object]
            /\ UNCHANGED <<observationFrame, scaler_method, min_max_range, aoi>>

\* batch.add(obs) with the observation just constructed
BatchAdd ==
    /\ res.op = "AOIObservation" /\ res.error = None
    /\ Len(aoi) < MaxBatch
    /\ aoi' = Append(aoi, res.value)
    /\ res' = Idle
    /\ UNCHANGED <<observationFrame, scaler_method, min_max_range>>

CallCreateAndAdd ==
    \E id \in AoiIds, m \in {Milli(150), Milli(1500)},
       given \in {<<>>, <<Milli(100), Milli(200), Milli(300)>>} :
        LET h   == IF given = <<>> THEN NoList ELSE given
            out == CreateAndAdd(aoi, id, m, None, h)
        IN  /\ res = Idle
            /\ Len(aoi) < MaxBatch
            /\ aoi' = out.observations
            /\ res' = [op |-> "create_and_add", error |-> out.error, args |-> <<id, m, h>>]
            /\ UNCHANGED <<observationFrame, scaler_method, min_max_range>>

CallAddHistoricalObservation ==
    \E i \in DOMAIN aoi, m \in {Milli(150), Milli(1500), 0 - Milli(100)} :
        LET out == AddHistoricalObservation(aoi[i], m)
        IN  /\ res = Idle
            /\ Len(aoi[i].historical_magnitudes) < MaxHistory
            /\ aoi' = [aoi EXCEPT ![i] = out.object]
            /\ res' = [op |-> "add_historical_observation", error |-> out.error,
                       args |-> <<i, m>>]
            /\ UNCHANGED <<observationFrame, scaler_method, min_max_range>>

\* process_all(), use_scaling left at its default
CallProcessAll ==
    \E use_scaling \in {TRUE} :
        /\ res = Idle
        /\ \E i \in DOMAIN aoi : aoi[i].status = "pending"
        /\ \E out \in {ProcessAllFrom(1, aoi, config, domain_multipliers, scaler_method,
                                      min_max_range, use_scaling, NoneCounted)} :
            /\ aoi' = out.observations
            /\ scaler_method' = out.method
            /\ min_max_range' = out.ranges
            /\ res' = [op |-> "process_all", error |-> None, args |-> <<use_scaling>>,
                       processing_stats |-> ProcessingStats(out)]
            /\ UNCHANGED observationFrame

CallLoadFromJson ==
    \E data \in SavedBatches :
        \E out \in {LoadFromJson(data, config, domain_multipliers)} :
            /\ res = Idle
            /\ IF out.error = None
               THEN /\ aoi' = out.observations
                    /\ scaler_method' = "sigmoid"
                    /\ min_max_range' = StaticRanges
               ELSE UNCHANGED <<aoi, scaler_method, min_max_range>>
            /\ res' = [op |-> "load_from_json", error |-> out.error, args |-> <<data>>]
            /\ UNCHANGED observationFrame

\* scorer.calculate_with_confidence called directly; it reads nothing of the
\* observations, so the model calls it on the scorer of an empty batch
CallCalculateWithConfidence ==
    \E m \in {Milli(150), MICRO}, h \in HistoryArgs \cup {<<Milli(10), Milli(20)>>},
       d \in {"port"}, use_scaling \in BOOLEAN :
        /\ res = Idle
        /\ aoi = <<>>
        /\ \E result \in {CalculateWithConfidence(config, domain_multipliers, min_max_range,
                                                   m, h, d, use_scaling)} :
              /\ res' = result
              /\ scaler_method' = MethodAfterWithConfidence(domain_multipliers, scaler_method,
                                                            result, use_scaling)
              /\ min_max_range' = RangesAfterWithConfidence(domain_multipliers, min_max_range,
                                                            result, use_scaling)
        /\ UNCHANGED <<observationFrame, aoi>>

\* the caller takes the result
ReturnObservation ==
    /\ res # Idle
    /\ res' = Idle
    /\ UNCHANGED <<observationFrame, scaler_method, min_max_range, aoi>>

NextObservation ==
    \/ NewBatch
    \/ ConstructObservation
    \/ BatchAdd
    \/ CallCreateAndAdd
    \/ CallAddHistoricalObservation
    \/ CallProcessAll
    \/ CallLoadFromJson
    \/ CallCalculateWithConfidence
    \/ ReturnObservation

SpecObservation == InitObservation /\ [][NextObservation]_vars

\* a history as the confidence statistics require it
ValidHistory(h) == Len(h) >= min_observations /\ \A i \in DOMAIN h : InUnitInterval(h[i])

\* C12: for a history of at least 3 values in [0,1] and a current magnitude
\* in [0,1], calculate_with_confidence returns a result, and an observation
\* made of them is never left with status "error".
C12_ResultAlwaysProduced ==
    /\ (res.op = "calculate_with_confidence" /\ ValidHistory(res.args[2])) =>
           res.error = None
    /\ \A i \in DOMAIN aoi :
           (ValidHistory(aoi[i].historical_magnitudes) /\ InUnitInterval(aoi[i].raw_magnitude)) =>
               aoi[i].status # "error"


\* every value of the history h is a magnitude
HistoryInRange(h) == \A k \in DOMAIN h : InUnitInterval(h[k])

\* C16: every value held in the history of an observation is in [0,1],
\* however the observation was made and fed.
C16_HistoryValuesInRange ==
    /\ \A i \in DOMAIN aoi : HistoryInRange(aoi[i].historical_magnitudes)
    /\ (res.op = "AOIObservation" /\ res.error = None) =>
           HistoryInRange(res.value.historical_magnitudes)

\* C17: a raw magnitude outside [0,1] creates no observation, by the
\* constructor or by create_and_add, and add_historical_observation with a
\* value outside [0,1] raises and leaves the observations as they were.
C17_OutOfRangeRejected ==
    /\ []((res.op = "AOIObservation" /\ ~InUnitInterval(res.args[2])) =>
              (res.error = "ValueError" /\ IsNone(res.value)))
    /\ [][(res'.op = "create_and_add" /\ ~InUnitInterval(res'.args[2])) =>
              (res'.error = "ValueError" /\ aoi' = aoi)]_vars
    /\ [][(res'.op = "add_historical_observation" /\ ~InUnitInterval(res'.args[2])) =>
              (res'.error = "ValueError" /\ aoi' = aoi)]_vars

\* add_historical_observation was given 1.5 for an observation that has a
\* history, and raised
C17_Witness ==
    /\ res.op = "add_historical_observation"
    /\ res.args[2] = Milli(1500)
    /\ res.error = "ValueError"
    /\ Len(aoi[res.args[1]].historical_magnitudes) >= 1

-----------------------------------------------------------------------------
(* SpecScoring: the four scoring paths of one AnomalyScorer: basic, scaled, *)
(* contextual (calculate_contextual_anomaly_score) and combined            *)
(* (calculate_with_confidence).                                            *)

\* current magnitudes: the grid, the values thresholds take, and 0.27
ContextRaws == Raws \cup {Milli(270)}

\* histories for the contextual score: none, one value (no deviation), a low
\* and narrow one, a wide one, and one that puts 0.27 two deviations above
\* the mean
ContextHistories ==
    { <<>>, <<Milli(50)>>, <<Milli(10), Milli(20), Milli(30)>>,
      <<Milli(200), Milli(450)>>, <<0, Milli(180)>> }

\* the error the computed z-score carries in its last place
Roundings == {-1, 0, 1}

CallCalculateContextualAnomalyScore ==
    \E raw \in ContextRaws, h \in ContextHistories, d \in {None, "port"},
       rounding \in Roundings :
        /\ res = Idle
        /\ res' = CalculateContextualAnomalyScore(config, domain_multipliers, raw, h, d,
                                                  rounding)
        /\ UNCHANGED <<scorerVars, storeVars, trackerVars, cacheVars, callerVars>>

\* calculate_scaled_anomaly_score on this scorer, for a static and an
\* adaptive domain
CallScaledScore ==
    \E raw \in {Milli(50), Milli(300)}, d \in {None, "port", "farm"},
       h \in {NoList, <<Milli(100), Milli(400)>>} :
        LET domain == ResolveDomain(domain_multipliers, d)
            mult   == domain_multipliers[domain]
        IN  /\ res = Idle
            /\ Adaptive(domain, h) => calls < MaxAdaptiveCalls
            /\ res' = CalculateScaledAnomalyScore(config, domain_multipliers, min_max_range,
                                                  raw, d, None, h)
            /\ scaler_method' = MethodFor(domain)
            /\ min_max_range' = ScaledRangesAfter(min_max_range, MulFx(raw, mult), domain,
                                                  mult, h)
            /\ calls' = IF Adaptive(domain, h) THEN calls + 1 ELSE calls
            /\ UNCHANGED <<config, domain_multipliers, storeVars, trackerVars, cacheVars, callerVars>>

NextScoring ==
    \/ CallCalculateAnomalyScore
    \/ CallScaledScore
    \/ CallCalculateContextualAnomalyScore
    \/ CallCalculateWithConfidence
    \/ CallGenerateCombinedAssessment
    \/ Return

SpecScoring == InitObservation /\ [][NextScoring]_vars

\* the result is one of calculate_contextual_anomaly_score with a history
IsContextual == res.op = "calculate_contextual_anomaly_score" /\ res.error = None
                    /\ res.args[2] # <<>>

\* the z-score the call computed
ResultZ == ContextualZScore(res.args[1], res.args[2], res.args[4])

\* C13: when |z| > 2 the level and the attention flag of the contextual result
\* are the classification of the amplified anomaly_score it returns.
C13_ClassifiedAfterAmplification ==
    (IsContextual /\ Abs(ResultZ) > 2 * MICRO) =>
        /\ res.anomaly_level = LevelOf(res.anomaly_score, LevelThresholds(config, res.domain))
        /\ res.requires_attention =
               (LevelOf(res.anomaly_score, LevelThresholds(config, res.domain))
                    \in {"high", "critical"})

\* the anomaly_score of calculate_anomaly_score for the same magnitude and domain
BasicOfResult ==
    CalculateAnomalyScore(config, domain_multipliers, res.args[1], res.args[3], None).anomaly_score

\* C14: the contextual score is never below the basic score nor above 1.0,
\* equals it when |z| <= 2, and is strictly greater when |z| > 2 and the basic
\* score lies strictly between 0 and 1.
C14_AmplifiedAboveBasic ==
    IsContextual =>
        /\ res.anomaly_score >= BasicOfResult
        /\ res.anomaly_score <= MICRO
        /\ Abs(ResultZ) <= 2 * MICRO => res.anomaly_score = BasicOfResult
        /\ (Abs(ResultZ) > 2 * MICRO /\ 0 < BasicOfResult /\ BasicOfResult < MICRO) =>
               res.anomaly_score > BasicOfResult

\* the levels that ask for a human
ReviewLevels == {"very_low", "insufficient_data"}

\* C19: a combined assessment requires human review exactly when the anomaly
\* level is high or critical or the confidence level is very_low or
\* insufficient_data; with fewer than 3 observations it always does.
C19_HumanReviewRule ==
    /\ res.op = "_generate_combined_assessment" =>
           res.requires_human_review =
               (res.args[1] \in {"high", "critical"} \/ res.args[2] \in ReviewLevels)
    /\ (res.op = "calculate_with_confidence" /\ res.error = None) =>
           /\ res.combined_assessment.requires_human_review =
                  (res.anomaly_level \in {"high", "critical"}
                       \/ res.confidence.level \in ReviewLevels)
           /\ Len(res.args[2]) < min_observations =>
                  res.combined_assessment.requires_human_review

\* calculate_with_confidence on a short history and a normal score: review is
\* required for the lack of data alone
C19_Witness ==
    /\ res.op = "calculate_with_confidence" /\ res.error = None
    /\ Len(res.args[2]) \in 1 .. 2
    /\ res.anomaly_level \notin {"high", "critical"}
    /\ res.combined_assessment.requires_human_review

ScoringPaths ==
    { "calculate_anomaly_score", "calculate_scaled_anomaly_score",
      "calculate_contextual_anomaly_score", "calculate_with_confidence" }

\* C20: in the result of every scoring path, requires_attention is true
\* exactly when anomaly_level is high or critical.
C20_AttentionIffHighOrCritical ==
    (res.op \in ScoringPaths /\ res.error = None) =>
        res.requires_attention = (res.anomaly_level \in {"high", "critical"})

\* a contextual result whose score was amplified and that requires attention
C20_Witness ==
    /\ IsContextual /\ Abs(ResultZ) > 2 * MICRO
    /\ res.anomaly_score > BasicOfResult
    /\ res.anomaly_level = "high" /\ res.requires_attention

-----------------------------------------------------------------------------
(* SpecTracker: one ConfidenceTracker shared by two threads that append to *)
(* different entities.  A thread runs one statement of add_observation per *)
(* step (the labels are line numbers of confidence_metrics.py);            *)
(* batch_update runs add_observation for each of its updates in turn.      *)

MaxAppends == 3

\* the new entry of line 456: an empty deque and the domain passed
NewEntry(domain) == [values |-> <<>>, domain |-> domain]

\* a dict rebuilt around the one entry
StoreAlone(tracked, entity_id, entry) == [e \in {entity_id} |-> entry]

\* self.observations[entity_id] = entry: the store of one key
StoreEntry(tracked, entity_id, entry) ==
    [e \in DOMAIN tracked \cup {entity_id} |-> IF e = entity_id THEN entry ELSE tracked[e]]

\* add_observation(entity_id, magnitude, domain) for the first update the
\* thread has to do, one statement at a time: the membership test (455), the
\* new entry (456), the append (461), the domain (462-463); then the next
\* update of the batch, or the return
AddObservationStep(t, tracked, window) ==
    LET entity_id == t.todo[1][1]
        magnitude == t.todo[1][2]
        domain    == t.todo[1][3]
    IN  CASE t.at = "L455" ->
                [thread |-> At(t, IF entity_id \notin DOMAIN tracked THEN "L456" ELSE "L461"),
                 observations |-> tracked]
          [] t.at = "L456" ->
                [thread |-> At(t, "L461"),
                 observations |-> StoreEntry(tracked, entity_id, NewEntry(domain))]
          [] t.at = "L461" ->
                IF entity_id \notin DOMAIN tracked
                THEN [thread |-> RaisedAt(t, "KeyError"), observations |-> tracked]
                ELSE [thread |-> At(t, "L462"),
                      observations |->
                          [tracked EXCEPT ![entity_id].values =
                                              DequeAppend(@, magnitude, window)]]
          [] OTHER ->
                IF domain # None /\ entity_id \notin DOMAIN tracked
                THEN [thread |-> RaisedAt(t, "KeyError"), observations |-> tracked]
                ELSE [thread |-> [t EXCEPT !.todo = Tail(@),
                                           !.at = IF Len(t.todo) > 1 THEN "L455" ELSE "done"],
                      observations |->
                          IF domain # None THEN [tracked EXCEPT ![entity_id].domain = domain]
                          ELSE tracked]

Appenders == {"feed-1", "feed-2"}

\* each thread feeds an entity of its own
EntityOf(t) == IF t = "feed-1" THEN "aoi-1" ELSE "aoi-2"

\* what a thread passes: the first either of two magnitudes, with or without a
\* domain; the second one magnitude.  1.5 is no magnitude.
FedValues(t) == IF t = "feed-1" THEN {Milli(100), Milli(1500)} ELSE {Milli(500)}
FedDomains(t) == IF t = "feed-1" THEN {None, "farm"} ELSE {None}

\* the lists batch_update is given
Updates(t) ==
    IF t = "feed-1"
    THEN { <<>>, <<<<EntityOf(t), Milli(1500), "port">>, <<EntityOf(t), Milli(100), None>>>> }
    ELSE { <<>> }

InitTracker ==
    /\ window_size \in {0, 1, 2}
    /\ observations = <<>>
    /\ CacheEmpty
    /\ config = NoObject
    /\ domain_multipliers = <<>>
    /\ scaler_method = None
    /\ min_max_range = StaticRanges
    /\ calls = 0
    /\ StoreFresh(FileMissing)
    /\ pc = [t \in Appenders |-> [at |-> "idle", todo |-> <<>>, error |-> None]]
    /\ appended = [t \in Appenders |-> <<>>]
    /\ aoi = NoObject
    /\ res = Idle

trackerFrame == <<scorerVars, storeVars, window_size, cacheVars, aoi, res>>

\* a thread calls add_observation for its entity
StartAddObservation ==
    \E t \in Appenders : \E m \in FedValues(t), d \in FedDomains(t) :
        /\ pc[t].at = "idle"
        /\ Len(appended[t]) < MaxAppends
        /\ pc' = [pc EXCEPT ![t] = [at |-> "L455", todo |-> <<<<EntityOf(t), m, d>>>>,
                                    error |-> None]]
        /\ UNCHANGED <<observations, appended, trackerFrame>>

\* a thread calls batch_update; an empty list returns at once
StartBatchUpdate ==
    \E t \in Appenders : \E updates \in Updates(t) :
        /\ pc[t].at = "idle"
        /\ Len(appended[t]) + Len(updates) <= MaxAppends
        /\ pc' = [pc EXCEPT ![t] = [at |-> IF updates = <<>> THEN "done" ELSE "L455",
                                    todo |-> updates, error |-> None]]
        /\ UNCHANGED <<observations, appended, trackerFrame>>

\* a thread runs its next statement of add_observation; the append is logged
StepAddObservation ==
    \E t \in Appenders :
        LET out == AddObservationStep(pc[t], observations, window_size)
        IN  /\ pc[t].at \in {"L455", "L456", "L461", "L462"}
            /\ pc' = [pc EXCEPT ![t] = out.thread]
            /\ observations' = out.observations
            /\ appended' = IF pc[t].at = "L461" /\ out.thread.error = None
                           THEN [appended EXCEPT ![t] = Append(@, pc[t].todo[1][2])]
                           ELSE appended
            /\ UNCHANGED trackerFrame

\* the call returns to the thread's caller
FinishAppend ==
    \E t \in Appenders :
        /\ pc[t].at = "done"
        /\ pc' = [pc EXCEPT ![t] = [at |-> "idle", todo |-> <<>>, error |-> None]]
        /\ UNCHANGED <<observations, appended, trackerFrame>>

NextTracker ==
    \/ StartAddObservation
    \/ StartBatchUpdate
    \/ StepAddObservation
    \/ FinishAppend

SpecTracker == InitTracker /\ [][NextTracker]_vars

\* the last min(n, window) of the n values in log
MostRecent(log, window) ==
    IF Len(log) <= window THEN log ELSE SubSeq(log, Len(log) - window + 1, Len(log))

\* the history the tracker stores for the entity of thread t
StoredHistory(t) ==
    IF EntityOf(t) \in DOMAIN observations THEN observations[EntityOf(t)].values ELSE <<>>

\* C15: the stored history of an entity holds at most window_size values and
\* is, in order, the most recent min(n, window_size) of the n values added;
\* an append to a full window drops the oldest value and nothing else.
C15_BoundedFifoHistory ==
    /\ [](\A t \in Appenders :
              /\ Len(StoredHistory(t)) <= window_size
              /\ StoredHistory(t) = MostRecent(appended[t], window_size))
    /\ [][\A t \in Appenders :
              (appended'[t] # appended[t] /\ window_size > 0
                  /\ Len(StoredHistory(t)) = window_size) =>
                  StoredHistory(t)' = Append(Tail(StoredHistory(t)),
                                             appended'[t][Len(appended'[t])])]_vars

\* a window of two after three appends of which the first is gone
C15_Witness ==
    /\ window_size = 2
    /\ Len(appended["feed-1"]) = 3
    /\ appended["feed-1"][1] # appended["feed-1"][2]
    /\ StoredHistory("feed-1") = Tail(appended["feed-1"])

\* the history add_observation builds from the values of log when its calls
\* run one after the other on a tracker of their own
RECURSIVE RunAlone(_, _)
RunAlone(log, window) ==
    IF log = <<>> THEN <<>>
    ELSE DequeAppend(RunAlone(SubSeq(log, 1, Len(log) - 1), window), log[Len(log)], window)

\* C18: however the statements of two threads that append to different
\* entities interleave, no call raises, every entity's history is what the
\* appends of its own thread give when run alone, and no other entity appears.
C18_DifferentEntitiesIndependent ==
    /\ DOMAIN observations \subseteq {EntityOf(t) : t \in Appenders}
    /\ \A t \in Appenders :
           /\ pc[t].error = None
           /\ StoredHistory(t) = RunAlone(appended[t], window_size)
           /\ (pc[t].at \in {"L461", "L462"} \/ appended[t] # <<>>) =>
                  EntityOf(t) \in DOMAIN observations

\* both threads are inside add_observation, each with earlier appends of its own
C18_Witness ==
    /\ pc["feed-1"].at = "L461" /\ pc["feed-2"].at = "L462"
    /\ Len(appended["feed-1"]) >= 1 /\ Len(appended["feed-2"]) >= 2
    /\ window_size = 2

(* Domain detection.  variable res holds the result of the call being made. *)
(* Identifiers are built from pieces: keywords of the four domains, in     *)
(* lower case and in other cases, parts of keywords, and neutral text.     *)

MaxPieces == 2

Pieces ==
    { <<"p", "o", "r", "t">>,
      <<"P", "o", "r", "t">>,
      <<"h", "a", "r", "b", "o", "r">>,
      <<"D", "O", "C", "K">>,
      <<"f", "a", "r", "m">>,
      <<"a", "g", "r", "i">>,
      <<"c", "r", "o", "p">>,
      <<"m", "i", "n", "e">>,
      <<"p", "i", "t">>,
      <<"e", "n", "e", "r", "g", "y">>,
      <<"p", "o", "w", "e", "r">>,
      <<"g", "a", "s">>,
      <<"p", "o", "r">>,
      <<"t">>,
      <<"-">>,
      <<"l", "a">> }

RECURSIVE Joined(_)
Joined(n) == IF n = 0 THEN {<<>>} ELSE Joined(n - 1) \cup { a \o b : a \in Joined(n - 1), b \in Pieces }

DetectIds == Joined(MaxPieces)

\* the convenience function calculate_anomaly_score(raw_magnitude, aoi_id, domain)
QuickAnomalyScore(cfg, mults, raw_magnitude, aoi_id, domain_arg) ==
    LET detected == IF aoi_id # <<>> /\ domain_arg = None
                    THEN DetectDomainFromAoi(aoi_id) ELSE domain_arg
        domain   == IF aoi_id # <<>> /\ domain_arg = None /\ detected = None
                    THEN "default" ELSE detected
    IN  [CalculateAnomalyScore(cfg, mults, raw_magnitude, domain, None)
            EXCEPT !.op = "quick_anomaly_score",
                   !.args = <<raw_magnitude, aoi_id, domain_arg>>]

CallDetectDomainFromAoi ==
    \E id \in DetectIds :
        /\ res = Idle
        /\ res' = [op |-> "detect_domain_from_aoi", error |-> None, args |-> <<id>>,
                   value |-> DetectDomainFromAoi(id)]
        /\ UNCHANGED <<scorerVars, storeVars, trackerVars, cacheVars, callerVars>>

\* AOIObservation(aoi_id, raw_magnitude): no domain given
CallObservationOf ==
    \E id \in DetectIds, m \in {Milli(150)} :
        LET made == NewObservation(id, m, "default", <<>>)
        IN  /\ res = Idle
            /\ res' = [op |-> "AOIObservation", error |-> made.error,
                       args |-> <<id, m, <<>>>>, value |-> made.object]
            /\ UNCHANGED <<scorerVars, storeVars, trackerVars, cacheVars, callerVars>>

CallQuickAnomalyScore ==
    \E id \in DetectIds, raw \in {Milli(150)} :
        /\ res = Idle
        /\ res' = QuickAnomalyScore(config, domain_multipliers, raw, id, None)
        /\ UNCHANGED <<scorerVars, storeVars, trackerVars, cacheVars, callerVars>>

NextDetect ==
    \/ CallDetectDomainFromAoi
    \/ CallObservationOf
    \/ CallQuickAnomalyScore
    \/ Return

SpecDetect == InitObservation /\ [][NextDetect]_vars

DetectionOrder == <<"port", "farm", "mine", "energy">>

KeywordsOf(domain) ==
    CASE domain = "port" -> PortKeywords
      [] domain = "farm" -> FarmKeywords
      [] domain = "mine" -> MineKeywords
      [] domain = "energy" -> EnergyKeywords

\* the positions of DetectionOrder whose domain has a keyword inside the
\* identifier, letter case ignored
Hits(aoi_id) == { k \in DOMAIN DetectionOrder : AnyIn(Lower(aoi_id), KeywordsOf(DetectionOrder[k])) }

-----------------------------------------------------------------------------
(* Unknown domain names.  The manager has loaded a configuration and the   *)
(* scorer was constructed from it; getters and scoring operations are      *)
(* called with a configured domain, with names no configuration has, and   *)
(* with the name default.                                                  *)

OtherDefault == DomainCfg(WeightBag(SpecialBands, Milli(-2000), DeclaredDims), T4)

\* loaded configurations: the base one, one without port, one whose domains
\* have an entry named default
FallbackConfigs ==
    { MkConfig(RequiredKeys, DeclaredDims, BaseDomains, OtherDefault),
      MkConfig(RequiredKeys, DeclaredDims,
               [d \in SupportedDomains \ {"port"} |-> BaseEntry], OtherDefault),
      MkConfig(RequiredKeys, DeclaredDims,
               [d \in SupportedDomains \cup {"default"} |-> BaseEntry], OtherDefault) }

FallbackDomainArgs == {"port", "forest", "default"}

FallbackRaws == {Milli(20), Milli(90), Milli(300)}

\* a spread history, and a steady one around 0.82
FallbackHistories ==
    { <<Milli(100), Milli(200), Milli(300)>>, <<Milli(880), Milli(790), Milli(790)>> }

InitFallback ==
    /\ \E cfg \in FallbackConfigs :
          /\ ScorerConstructed(cfg)
          /\ disk = cfg
          /\ weights_data = cfg
          /\ loaded = TRUE
    /\ analyzer_config = NoObject
    /\ calls = 0
    /\ TrackerAbsent
    /\ CacheEmpty
    /\ pc = <<>>
    /\ appended = <<>>
    /\ aoi = <<>>
    /\ res = Idle

CallGetterOf ==
    \E d \in FallbackDomainArgs :
        LET ensured == EnsureLoaded(disk, weights_data, loaded)
        IN  /\ res = Idle
            /\ res' \in { GetDomainWeights(ensured, d), GetDomainConfig(ensured, d),
                          GetThresholds(ensured, d) }
            /\ weights_data' = ensured.data
            /\ loaded' = ensured.loaded
            /\ UNCHANGED <<scorerVars, disk, analyzer_config, trackerVars, cacheVars, callerVars>>

CallScoreOf ==
    \E raw \in FallbackRaws, d \in FallbackDomainArgs :
        /\ res = Idle
        /\ res' = CalculateAnomalyScore(config, domain_multipliers, raw, d, None)
        /\ UNCHANGED <<scorerVars, storeVars, trackerVars, cacheVars, callerVars>>

CallScaledScoreOf ==
    \E raw \in FallbackRaws, d \in FallbackDomainArgs :
        /\ res = Idle
        /\ res' = CalculateScaledAnomalyScore(config, domain_multipliers, min_max_range,
                                              raw, d, None, NoList)
        /\ scaler_method' = MethodFor(ResolveDomain(domain_multipliers, d))
        /\ UNCHANGED <<config, domain_multipliers, min_max_range, calls, storeVars,
                       trackerVars, cacheVars, callerVars>>

CallWithConfidenceOf ==
    \E raw \in FallbackRaws \cup {Milli(830)}, h \in FallbackHistories,
       d \in FallbackDomainArgs, use_scaling \in BOOLEAN :
        /\ res = Idle
        /\ \E result \in {CalculateWithConfidence(config, domain_multipliers, min_max_range,
                                                   raw, h, d, use_scaling)} :
              /\ res' = result
              /\ scaler_method' = MethodAfterWithConfidence(domain_multipliers, scaler_method,
                                                            result, use_scaling)
              /\ min_max_range' = RangesAfterWithConfidence(domain_multipliers, min_max_range,
                                                            result, use_scaling)
        /\ UNCHANGED <<observationFrame, aoi>>

NextFallback ==
    \/ CallGetterOf
    \/ CallScoreOf
    \/ CallScaledScoreOf
    \/ CallWithConfidenceOf
    \/ Return

SpecFallback == InitFallback /\ [][NextFallback]_vars

\* a result without the arguments of its call
Answer(r) == [k \in DOMAIN r \ {"args"} |-> r[k]]

GetterOps == {"get_domain_weights", "get_domain_config", "get_thresholds"}

\* the getter op called on the loaded configuration with the domain d
GetterCall(op, d) ==
    LET ensured == [error |-> None, data |-> weights_data, loaded |-> TRUE]
    IN  CASE op = "get_domain_weights" -> GetDomainWeights(ensured, d)
          [] op = "get_domain_config" -> GetDomainConfig(ensured, d)
          [] op = "get_thresholds" -> GetThresholds(ensured, d)

\* what the getter op yields of the configuration's default entry
OfDefaultEntry(op) ==
    CASE op = "get_domain_weights" -> weights_data.default.weights
      [] op = "get_domain_config" -> weights_data.default
      [] op = "get_thresholds" -> weights_data.default.thresholds

C24_ReliabilityAgreesWithLevel ==
    res.op = "calculate_with_confidence" /\ res.error = None =>
        /\ res.reliability = "High reliability" =>
               res.confidence.level \in {"very_high", "high"}
        /\ res.reliability = "Low reliability - insufficient data" =>
               res.confidence.level \in {"low", "very_low", "insufficient_data"}

-----------------------------------------------------------------------------
(* The cache of the WeightsManager singleton, one caller.  The weights     *)
(* were loaded at startup; weights.json is replaced on disk from time to   *)
(* time, and load_weights is called with and without a path, with and      *)
(* without force_reload.                                                   *)

\* the file at a path a caller names; nobody replaces it
OtherFile == MkConfig(RequiredKeys, DeclaredDims, BaseDomains, DomainCfg(WBase, T4))

OtherPath == "other.json"

CacheFiles == ReloadFiles \cup {FileMalformed}

\* the file load_weights opens for the argument weights_file
FileAt(weights_file, file) == IF weights_file = None THEN file ELSE OtherFile

\* load_weights(weights_file, force_reload) of the module: the manager's
\* fields after it, the error raised, and whether a file was opened and parsed
ModuleLoadWeights(weights_file, force_reload, file, data, is_loaded) ==
    LET path_file == FileAt(weights_file, file)
        out == IF force_reload THEN ReloadWeights(path_file)
               ELSE LoadWeights(path_file, data, is_loaded)
    IN  [error  |-> out.error,
         data   |-> out.data,
         loaded |-> out.loaded,
         opened |-> /\ force_reload \/ ~(is_loaded /\ Truthy(data))
                    /\ path_file # FileMissing]

InitCache ==
    /\ \E file \in CacheFiles :
          /\ IsDict(file) /\ ValidateWeights(file) = None
          /\ disk = file /\ weights_data = file /\ loaded = TRUE
    /\ analyzer_config = NoObject
    /\ config = NoObject
    /\ domain_multipliers = <<>>
    /\ scaler_method = None
    /\ min_max_range = StaticRanges
    /\ calls = 0
    /\ TrackerAbsent
    /\ CacheEmpty
    /\ SingleCaller
    /\ res = Idle

\* weights.json is replaced, removed or damaged
ReplaceFile ==
    /\ res = Idle
    /\ disk' \in CacheFiles \ {disk}
    /\ UNCHANGED <<weights_data, loaded, analyzer_config, scorerVars, trackerVars, cacheVars,
                   callerVars, res>>

CallModuleLoadWeights ==
    \E weights_file \in {None, OtherPath}, force_reload \in BOOLEAN :
        LET out == ModuleLoadWeights(weights_file, force_reload, disk, weights_data, loaded)
        IN  /\ res = Idle
            /\ res' = [op |-> "load_weights", error |-> out.error,
                       args |-> <<weights_file, force_reload>>,
                       value |-> IF out.error = None THEN out.data ELSE NoObject,
                       opened |-> out.opened]
            /\ weights_data' = out.data
            /\ loaded' = out.loaded
            /\ UNCHANGED <<scorerVars, disk, analyzer_config, trackerVars, cacheVars, callerVars>>

CallIsLoaded ==
    /\ res = Idle
    /\ res' = [op |-> "is_loaded", error |-> None, args |-> <<>>, value |-> loaded]
    /\ UNCHANGED <<scorerVars, storeVars, trackerVars, cacheVars, callerVars>>

NextCache ==
    \/ ReplaceFile
    \/ CallModuleLoadWeights
    \/ CallIsLoaded
    \/ CallGetter
    \/ Return

SpecCache == InitCache /\ [][NextCache]_vars

\* C23: weights are loaded only once.  The weights were loaded at startup; from
\* then on is_loaded() is true, every load_weights without force_reload returns
\* the cached configuration and opens no file, whatever path it is given, and
\* a load_weights(force_reload=True) that returns has opened the file and
\* returns what it holds
C23_LoadedOnlyOnce ==
    /\ [](loaded)
    /\ [](res.op = "is_loaded" => res.value)
    /\ [][res'.op = "load_weights" /\ ~res'.args[2] =>
            /\ res'.error = None
            /\ ~res'.opened
            /\ res'.value = weights_data
            /\ weights_data' = weights_data]_vars
    /\ [][res'.op = "load_weights" /\ res'.args[2] /\ res'.error = None =>
            /\ res'.opened
            /\ res'.value = FileAt(res'.args[1], disk)
            /\ weights_data' = res'.value]_vars

\* C25: domain detection is the same everywhere.  An AOIObservation made
\* without a domain has the domain detect_domain_from_aoi finds in its
\* identifier, default when it finds none, and the convenience function
\* calculate_anomaly_score(raw, aoi_id) scores with that same domain
C25_DetectionAgrees ==
    /\ res.op = "AOIObservation" /\ res.error = None =>
           res.value.domain = (IF DetectDomainFromAoi(res.args[1]) = None THEN "default"
                               ELSE DetectDomainFromAoi(res.args[1]))
    /\ res.op = "quick_anomaly_score" /\ res.error = None /\ res.args[2] # <<>> =>
           res.domain = (IF DetectDomainFromAoi(res.args[2]) = None THEN "default"
                         ELSE DetectDomainFromAoi(res.args[2]))

\* C26: a failed reload changes nothing.  When load_weights(force_reload=True)
\* raises after a configuration was loaded, that configuration stays in the
\* manager, which the getters read, and is_loaded() stays true
C26_FailedReloadChangesNothing ==
    [][loaded /\ res'.op = "load_weights" /\ res'.args[2] /\ res'.error # None =>
          /\ weights_data' = weights_data
          /\ loaded']_vars

\* C27: when process returns without an error, the status is anomaly_detected
\* exactly if requires_attention is set, whatever the length of the history,
\* and process never leaves an observation pending
C27_StatusFollowsAttention ==
    [][res'.op = "process_all" =>
          \A i \in DOMAIN aoi :
              aoi[i].status = "pending" =>
                  /\ aoi'[i].status # "pending"
                  /\ aoi'[i].status # "error" =>
                         (aoi'[i].status = "anomaly_detected" <=> aoi'[i].requires_attention)]_vars

-----------------------------------------------------------------------------
(* process_all on batches of several observations: some were processed by  *)
(* an earlier process_all, some were added since, one ends in an error.    *)

MaxPending == 3

\* the observations a caller adds: no history, a spread history, and a nearly
\* constant history far below the magnitude
BatchInputs ==
    { <<Milli(150), <<>>>>,
      <<Milli(150), <<Milli(100), Milli(200), Milli(300)>>>>,
      <<MICRO, <<0, 0, Milli(3)>>>> }

CallCreateAndAddOf ==
    \E input \in BatchInputs :
        LET h   == IF input[2] = <<>> THEN NoList ELSE input[2]
            out == CreateAndAdd(aoi, PortLa, input[1], None, h)
        IN  /\ res = Idle
            /\ Len(aoi) < MaxPending
            /\ aoi' = out.observations
            /\ res' = [op |-> "create_and_add", error |-> out.error,
                       args |-> <<PortLa, input[1], h>>]
            /\ UNCHANGED <<observationFrame, scaler_method, min_max_range>>

\* process_all(), whether or not an observation is pending
CallProcessAllOf ==
    \E use_scaling \in {TRUE} :
        /\ res = Idle
        /\ \E out \in {ProcessAllFrom(1, aoi, config, domain_multipliers, scaler_method,
                                      min_max_range, use_scaling, NoneCounted)} :
            /\ aoi' = out.observations
            /\ scaler_method' = out.method
            /\ min_max_range' = out.ranges
            /\ res' = [op |-> "process_all", error |-> None, args |-> <<use_scaling>>,
                       processing_stats |-> ProcessingStats(out)]
            /\ UNCHANGED observationFrame

NextBatch ==
    \/ CallCreateAndAddOf
    \/ CallProcessAllOf
    \/ ReturnObservation

SpecBatch == InitObservation /\ [][NextBatch]_vars

PendingIn(batch) == { i \in DOMAIN batch : batch[i].status = "pending" }

\* C28: process_all processes exactly the pending observations and leaves the
\* others as they are; processed and errors add up to the number of pending
\* observations, errors being those that ended in status error; a process_all
\* that finds nothing pending changes no observation
C28_ProcessAllFrame ==
    [][res'.op = "process_all" =>
          /\ DOMAIN aoi' = DOMAIN aoi
          /\ \A i \in DOMAIN aoi \ PendingIn(aoi) : aoi'[i] = aoi[i]
          /\ \A i \in PendingIn(aoi) : aoi'[i].status # "pending"
          /\ res'.processing_stats.processed + res'.processing_stats.errors
                 = Cardinality(PendingIn(aoi))
          /\ res'.processing_stats.errors
                 = Cardinality({ i \in PendingIn(aoi) : aoi'[i].status = "error" })
          /\ PendingIn(aoi) = {} => aoi' = aoi
          /\ PendingIn(aoi') = {}]_vars

\* a batch whose first observation was processed earlier and whose second,
\* added since, has just ended in an error
C28_Witness ==
    /\ res.op = "process_all"
    /\ res.processing_stats = [total |-> 2, processed |-> 0, errors |-> 1]
    /\ aoi[1].status = "anomaly_detected"
    /\ aoi[2].status = "error"

-----------------------------------------------------------------------------
(* POST /anomaly/detect.  What the embedding files hold is given per AOI:   *)
(* whether both embeddings are on disk, the cosine similarity of the two    *)
(* years, and the similarities of earlier years to the baseline.            *)

MaxAois == 3

HarborEast == <<"h", "a", "r", "b", "o", "r", "-", "e">>
Unmapped == <<"z", "-", "9">>

\* per AOI: the identifier, found (both embeddings load), sim, hist_sims, and
\* the error of the last place of the z-score computed for it
AoiFacts ==
    { [aoi_id |-> PortLa, found |-> TRUE, sim |-> Milli(700),
       hist_sims |-> <<>>, rounding |-> 0],
      [aoi_id |-> FarmIowa, found |-> TRUE, sim |-> Milli(960),
       hist_sims |-> <<Milli(980), Milli(960), Milli(940)>>, rounding |-> 0],
      [aoi_id |-> HarborEast, found |-> TRUE, sim |-> Milli(400),
       hist_sims |-> <<Milli(800), Milli(600)>>, rounding |-> 1],
      [aoi_id |-> Unmapped, found |-> FALSE, sim |-> 0,
       hist_sims |-> <<>>, rounding |-> 0] }

RECURSIVE Requests(_)
Requests(n) == IF n = 0 THEN {<<>>} ELSE Requests(n - 1) \cup { Append(r, f) : r \in Requests(n - 1), f \in AoiFacts }

TopNs == {NoNumber, 0, 1, 2}

\* magnitude = max(0.0, min(1.0, (1 - sim) / 2))
MagnitudeOf(sim) == Clamp01((MICRO - sim) \div 2)

\* the body of the loop of detect_anomalies for one AOI: the result appended
\* to results, or an error appended to errors
DetectOne(cfg, mults, fact, include_historical) ==
    IF ~fact.found THEN [error |-> "FileNotFoundError", aoi_id |-> fact.aoi_id]
    ELSE
    LET magnitude == MagnitudeOf(fact.sim)
        detected  == DetectDomainFromAoi(fact.aoi_id)
        domain    == IF detected = None THEN "default" ELSE detected
        historical_magnitudes == [k \in DOMAIN fact.hist_sims |-> MagnitudeOf(fact.hist_sims[k])]
        Result(anomaly_result) ==
            IF anomaly_result.error # None
            THEN [error |-> anomaly_result.error, aoi_id |-> fact.aoi_id]
            ELSE [error |-> None,
                  aoi_id |-> fact.aoi_id,
                  raw_magnitude |-> Round4(magnitude),
                  anomaly_score |-> anomaly_result.anomaly_score,
                  anomaly_level |-> anomaly_result.anomaly_level,
                  domain |-> anomaly_result.domain,
                  domain_multiplier |-> anomaly_result.domain_multiplier,
                  requires_attention |-> anomaly_result.requires_attention]
    IN  Bind(IF include_historical /\ historical_magnitudes # <<>>
             THEN CalculateContextualAnomalyScore(cfg, mults, magnitude,
                                                  historical_magnitudes, domain, fact.rounding)
             ELSE CalculateAnomalyScore(cfg, mults, magnitude, domain, None),
             Result)

\* results.sort(key=lambda x: x['anomaly_score'], reverse=True): the result r
\* put into a list that is sorted already; equal scores keep their order
RECURSIVE InsertByScore(_, _)
InsertByScore(sorted, r) ==
    IF sorted = <<>> THEN <<r>>
    ELSE IF Head(sorted).anomaly_score >= r.anomaly_score
    THEN <<Head(sorted)>> \o InsertByScore(Tail(sorted), r)
    ELSE <<r>> \o sorted

RECURSIVE SortByScore(_)
SortByScore(results) ==
    IF results = <<>> THEN <<>>
    ELSE InsertByScore(SortByScore(SubSeq(results, 1, Len(results) - 1)),
                       results[Len(results)])

\* results[:top_n] when top_n is given and positive
TopOf(results, top_n) ==
    IF top_n # NoNumber /\ top_n > 0
    THEN SubSeq(results, 1, Min(top_n, Len(results)))
    ELSE results

\* what detect_anomalies returns for the outcomes of its loop
Response(outcomes, top_n) ==
    LET results == TopOf(SortByScore(SelectSeq(outcomes, LAMBDA o : o.error = None)), top_n)
        errors  == SelectSeq(outcomes, LAMBDA o : o.error # None)
    IN  [total_processed |-> Len(outcomes),
         successful |-> Len(results),
         failed |-> Len(errors),
         results |-> results,
         alerts |-> SelectSeq(results, LAMBDA r : r.requires_attention),
         summary |-> [l \in AnomalyLevels |->
                         Cardinality({k \in DOMAIN results : results[k].anomaly_level = l})]]

DetectAnomalies(cfg, mults, request, include_historical, top_n) ==
    Bind([k \in DOMAIN request |-> DetectOne(cfg, mults, request[k], include_historical)],
         LAMBDA outcomes : Response(outcomes, top_n))

CallDetectAnomalies ==
    \E request \in Requests(MaxAois), include_historical \in BOOLEAN, top_n \in TopNs :
        /\ res = Idle
        /\ \E out \in {DetectAnomalies(config, domain_multipliers, request,
                                       include_historical, top_n)} :
              res' = [op |-> "detect_anomalies", error |-> None,
                      args |-> <<request, include_historical, top_n>>,
                      value |-> out]
        /\ UNCHANGED <<scorerVars, storeVars, trackerVars, cacheVars, callerVars>>

NextRoute ==
    \/ CallDetectAnomalies
    \/ Return

SpecRoute == InitObservation /\ [][NextRoute]_vars

\* the five per-level counts of a summary, added up
SumOf(summary) ==
    summary["critical"] + summary["high"] + summary["medium"] + summary["low"]
        + summary["normal"]

\* C29: in every response successful + failed is total_processed, the five
\* counts of the summary add up to successful, and the alerts are exactly the
\* scored AOIs that require attention, with or without a top_n limit
C29_ResponseCountsAgree ==
    res.op = "detect_anomalies" =>
        LET scored == SelectSeq([k \in DOMAIN res.args[1] |->
                                    DetectOne(config, domain_multipliers, res.args[1][k],
                                              res.args[2])],
                                LAMBDA o : o.error = None)
        IN  /\ res.value.successful + res.value.failed = res.value.total_processed
            /\ SumOf(res.value.summary) = res.value.successful
            /\ { a.aoi_id : a \in { res.value.alerts[k] : k \in DOMAIN res.value.alerts } }
                   = { scored[k].aoi_id : k \in { j \in DOMAIN scored : scored[j].requires_attention } }

-----------------------------------------------------------------------------
(* The process-wide TTLCache: callers set and get two keys while the clock *)
(* advances.  last_set records, per key, the time, the ttl used and the     *)
(* value of the last set.                                                  *)

MaxTicks == 4

TickSeconds == 6 * 60 * 60

CacheKeys == {"aois", "thumb"}

CacheValues == {"v1", "v2"}

\* ttl arguments: none given, zero, one tick, more than the default
TtlArgs == {NoNumber, 0, TickSeconds, 3 * TickSeconds}

\* time passes
Tick ==
    /\ res = Idle
    /\ clock < MaxTicks * TickSeconds
    /\ clock' = clock + TickSeconds
    /\ UNCHANGED <<scorerVars, storeVars, trackerVars, callerVars, cache_store, last_set, res>>

CallCacheSet ==
    \E key \in CacheKeys, value \in CacheValues, ttl \in TtlArgs :
        /\ res = Idle
        /\ cache_store' = TtlSet(cache_store, TTL_SECONDS, key, value, ttl, clock)
        /\ last_set' = [k \in DOMAIN last_set \cup {key} |->
                           IF k = key
                           THEN [at |-> clock,
                                 ttl |-> IF ttl = NoNumber THEN TTL_SECONDS ELSE ttl,
                                 value |-> value]
                           ELSE last_set[k]]
        /\ res' = [op |-> "set", error |-> None, args |-> <<key, value, ttl>>, value |-> None]
        /\ UNCHANGED <<scorerVars, storeVars, trackerVars, callerVars, clock>>

CallCacheGet ==
    \E key \in CacheKeys :
        LET out == TtlGet(cache_store, key, clock)
        IN  /\ res = Idle
            /\ cache_store' = out.store
            /\ res' = [op |-> "get", error |-> None, args |-> <<key>>, value |-> out.value]
            /\ UNCHANGED <<scorerVars, storeVars, trackerVars, callerVars, clock, last_set>>

NextTtl ==
    \/ Tick
    \/ CallCacheSet
    \/ CallCacheGet
    \/ Return

SpecTtl == InitObservation /\ [][NextTtl]_vars

\* the last set of key has not expired at the current time
Fresh(key) ==
    /\ key \in DOMAIN last_set
    /\ clock <= last_set[key].at + last_set[key].ttl

\* C30: the cache never serves a stale entry.  While the result of a get is
\* in hand, it is the value of the last set of that key if that set's expiry
\* (its time plus its ttl, 12 hours when none was given) has not passed, and
\* otherwise it is None and the key is gone from the store; a set or a get of
\* one key leaves the entries of the other keys as they were
C30_NeverStale ==
    /\ [](res.op = "get" =>
            IF Fresh(res.args[1])
            THEN res.value = last_set[res.args[1]].value
            ELSE res.value = None /\ res.args[1] \notin DOMAIN cache_store)
    /\ [][res'.op \in {"get", "set"} =>
            \A k \in CacheKeys \ {res'.args[1]} :
                /\ k \in DOMAIN cache_store' <=> k \in DOMAIN cache_store
                /\ k \in DOMAIN cache_store => cache_store'[k] = cache_store[k]]_vars

\* a value set without a ttl is returned at its expiry, 12 hours after the set,
\* while the other key holds an entry that has expired
C30_Witness ==
    /\ res.op = "get"
    /\ res.args[1] = "aois"
    /\ res.value = "v1"
    /\ clock = last_set["aois"].at + TTL_SECONDS
    /\ last_set["aois"].ttl = TTL_SECONDS
    /\ "thumb" \in DOMAIN cache_store
    /\ cache_store["thumb"][1] < clock

====
